---- MODULE Spec2Model ----
(***************************************************************************)
(* Model of the diagram quality analyzer                                   *)
(* (skills/excalidraw/scripts/analyzer.py, class VisualAnalyzer).          *)
(*                                                                         *)
(* Python lists are objects: self.issues and self.warnings are references  *)
(* into a heap of lists, and a returned report holds references to the     *)
(* same lists.  Numbers are integers; x + width/2 is kept doubled and the  *)
(* coefficient of variation is kept as the exact fraction of its square,   *)
(* so comparisons with 0.3, 0.5 and 0.95 are exact integer comparisons.    *)
(* An element is a record that has a field exactly for the keys present;   *)
(* an issue or warning string is its kind and the number formatted into it.*)
(*                                                                         *)
(* Specifications: Spec (analyze calls on one instance), SpecHold (a       *)
(* caller keeps an earlier report), SpecGrade (grading of every score),    *)
(* SpecGeom (the overlap test on every pair of small boxes), and the       *)
(* trials SpecPerm (a snapshot and a reordering), SpecIgnored (a snapshot  *)
(* and one more element no check reads), SpecIssue (a snapshot and one     *)
(* more element that triggers an issue), SpecAlign (shapes around the      *)
(* alignment tolerance), SpecHier (shapes around the size-ratio cut),      *)
(* SpecSpacing (shapes around the spacing cut), SpecGap (_calculate_gap on *)
(* every pair of small boxes), SpecOrder (one call whose checks run in any *)
(* order), SpecShare (two calls interleaved step by step, on one instance  *)
(* or on one each), SpecRow (evenly spaced rows), SpecStats                *)
(* (_calculate_variance on lists of floats, in binary64 arithmetic built   *)
(* from exact integer mantissas).                                          *)
(***************************************************************************)
EXTENDS Integers, Sequences, FiniteSets, TLC

\* ---------------------------------------------------------------- bounds
MaxElems == 3      \* largest number of elements in an analysed snapshot
MaxCoord == 2      \* box coordinates and sizes of the geometry harness

\* ------------------------------------------------------- class constants
MIN_TEXT_SIZE == 12
MIN_SPACING == 20      \* defined by the class, read by no check
MAX_SPACING_VARIANCE == [num |-> 3, den |-> 10]
MIN_ALIGNMENT_THRESHOLD == 5
InitialScore == 100
DefaultFontSize == 20
IssuePenalty == 10
WarningPenalty == 5

\* ------------------------------------------------------ Python helpers
\* dict.get(k, d)
Get(e, k, d) == IF k \in DOMAIN e THEN e[k] ELSE d

\* dict.get(k) without a default yields None exactly when the key is absent
IsNone(e, k) == k \notin DOMAIN e

\* JSON null
Null == [null |-> TRUE]

\* truth value of a binding: absent (None), null and {} are falsy
Truthy(e, k) == k \in DOMAIN e /\ e[k] # Null /\ DOMAIN e[k] # {}

Abs(a) == IF a < 0 THEN -a ELSE a
Min2(a, b) == IF a < b THEN a ELSE b
Max2(a, b) == IF a > b THEN a ELSE b

RECURSIVE SeqSum(_)
SeqSum(s) == IF s = <<>> THEN 0 ELSE Head(s) + SeqSum(Tail(s))

RECURSIVE SeqSumSq(_)
SeqSumSq(s) == IF s = <<>> THEN 0 ELSE Head(s) * Head(s) + SeqSumSq(Tail(s))

SeqMax(s) == CHOOSE v \in {s[i] : i \in DOMAIN s} : \A i \in DOMAIN s : s[i] <= v
SeqMin(s) == CHOOSE v \in {s[i] : i \in DOMAIN s} : \A i \in DOMAIN s : v <= s[i]

\* [e for e in s if Test(e)] is SelectSeq(s, Test) of module Sequences

\* the pairs (i, j), i < j, in the order visited by
\*   for i, a in enumerate(s): for b in s[i+1:]
PairSeq(n) ==
  LET RECURSIVE From(_, _)
      From(i, j) ==
        IF i >= n THEN <<>>
        ELSE IF j > n THEN From(i + 1, i + 2)
        ELSE <<<<i, j>>>> \o From(i, j + 1)
  IN From(1, 2)

\* --------------------------------------------------- geometry (pure)
NoGap == [direction |-> "none", distance |-> 0]

_calculate_gap_directed(e1, e2) ==
  LET x1 == Get(e1, "x", 0)      y1 == Get(e1, "y", 0)
      w1 == Get(e1, "width", 0)  h1 == Get(e1, "height", 0)
      x2 == Get(e2, "x", 0)      y2 == Get(e2, "y", 0)
      w2 == Get(e2, "width", 0)  h2 == Get(e2, "height", 0)
      hGap == IF x1 + w1 < x2
                THEN [direction |-> "horizontal", distance |-> x2 - (x1 + w1)]
              ELSE NoGap
      vGap == IF y1 + h1 < y2
                THEN [direction |-> "vertical", distance |-> y2 - (y1 + h1)]
              ELSE NoGap
  IN IF 2 * Abs(y1 - y2) < Min2(h1, h2) /\ hGap # NoGap THEN hGap
     ELSE IF 2 * Abs(x1 - x2) < Min2(w1, w2) /\ vGap # NoGap THEN vGap
     ELSE NoGap

_calculate_gap_touching(e1, e2) ==
  LET x1 == Get(e1, "x", 0)      y1 == Get(e1, "y", 0)
      w1 == Get(e1, "width", 0)  h1 == Get(e1, "height", 0)
      x2 == Get(e2, "x", 0)      y2 == Get(e2, "y", 0)
      w2 == Get(e2, "width", 0)  h2 == Get(e2, "height", 0)
      hGap == IF x1 + w1 <= x2
                THEN [direction |-> "horizontal", distance |-> x2 - (x1 + w1)]
              ELSE IF x2 + w2 <= x1
                THEN [direction |-> "horizontal", distance |-> x1 - (x2 + w2)]
              ELSE NoGap
      vGap == IF y1 + h1 <= y2
                THEN [direction |-> "vertical", distance |-> y2 - (y1 + h1)]
              ELSE IF y2 + h2 <= y1
                THEN [direction |-> "vertical", distance |-> y1 - (y2 + h2)]
              ELSE NoGap
  IN IF 2 * Abs(y1 - y2) < Min2(h1, h2) /\ hGap # NoGap THEN hGap
     ELSE IF 2 * Abs(x1 - x2) < Min2(w1, w2) /\ vGap # NoGap THEN vGap
     ELSE NoGap

_calculate_gap_max(e1, e2) ==
  LET x1 == Get(e1, "x", 0)      y1 == Get(e1, "y", 0)
      w1 == Get(e1, "width", 0)  h1 == Get(e1, "height", 0)
      x2 == Get(e2, "x", 0)      y2 == Get(e2, "y", 0)
      w2 == Get(e2, "width", 0)  h2 == Get(e2, "height", 0)
      hGap == IF x1 + w1 < x2
                THEN [direction |-> "horizontal", distance |-> x2 - (x1 + w1)]
              ELSE IF x2 + w2 < x1
                THEN [direction |-> "horizontal", distance |-> x1 - (x2 + w2)]
              ELSE NoGap
      vGap == IF y1 + h1 < y2
                THEN [direction |-> "vertical", distance |-> y2 - (y1 + h1)]
              ELSE IF y2 + h2 < y1
                THEN [direction |-> "vertical", distance |-> y1 - (y2 + h2)]
              ELSE NoGap
  IN IF 2 * Abs(y1 - y2) < Max2(h1, h2) /\ hGap # NoGap THEN hGap
     ELSE IF 2 * Abs(x1 - x2) < Max2(w1, w2) /\ vGap # NoGap THEN vGap
     ELSE NoGap

\* abs(y1 - y2) < min(h1, h2) * 0.5, kept in integers
_calculate_gap(e1, e2) ==
  LET x1 == Get(e1, "x", 0)      y1 == Get(e1, "y", 0)
      w1 == Get(e1, "width", 0)  h1 == Get(e1, "height", 0)
      x2 == Get(e2, "x", 0)      y2 == Get(e2, "y", 0)
      w2 == Get(e2, "width", 0)  h2 == Get(e2, "height", 0)
      hGap == IF x1 + w1 < x2
                THEN [direction |-> "horizontal", distance |-> x2 - (x1 + w1)]
              ELSE IF x2 + w2 < x1
                THEN [direction |-> "horizontal", distance |-> x1 - (x2 + w2)]
              ELSE NoGap
      vGap == IF y1 + h1 < y2
                THEN [direction |-> "vertical", distance |-> y2 - (y1 + h1)]
              ELSE IF y2 + h2 < y1
                THEN [direction |-> "vertical", distance |-> y1 - (y2 + h2)]
              ELSE NoGap
  IN IF 2 * Abs(y1 - y2) < Min2(h1, h2) /\ hGap # NoGap THEN hGap
     ELSE IF 2 * Abs(x1 - x2) < Min2(w1, w2) /\ vGap # NoGap THEN vGap
     ELSE NoGap

_elements_overlap_strict(e1, e2) ==
  LET x1 == Get(e1, "x", 0)      y1 == Get(e1, "y", 0)
      w1 == Get(e1, "width", 0)  h1 == Get(e1, "height", 0)
      x2 == Get(e2, "x", 0)      y2 == Get(e2, "y", 0)
      w2 == Get(e2, "width", 0)  h2 == Get(e2, "height", 0)
  IN ~(x1 + w1 < x2 \/ x2 + w2 < x1 \/ y1 + h1 < y2 \/ y2 + h2 < y1)

_elements_overlap_onesided(e1, e2) ==
  LET x1 == Get(e1, "x", 0)      y1 == Get(e1, "y", 0)
      w1 == Get(e1, "width", 0)  h1 == Get(e1, "height", 0)
      x2 == Get(e2, "x", 0)      y2 == Get(e2, "y", 0)
      w2 == Get(e2, "width", 0)  h2 == Get(e2, "height", 0)
  IN ~(x1 + w1 <= x2 \/ y1 + h1 <= y2 \/ y2 + h2 <= y1)

_elements_overlap(e1, e2) ==
  LET x1 == Get(e1, "x", 0)      y1 == Get(e1, "y", 0)
      w1 == Get(e1, "width", 0)  h1 == Get(e1, "height", 0)
      x2 == Get(e2, "x", 0)      y2 == Get(e2, "y", 0)
      w2 == Get(e2, "width", 0)  h2 == Get(e2, "height", 0)
  IN ~(x1 + w1 <= x2 \/ x2 + w2 <= x1 \/ y1 + h1 <= y2 \/ y2 + h2 <= y1)

\* --------------------------------------------------- statistics (pure)
\* The coefficient of variation std/mean is returned as the exact fraction
\* of its square, num/den = (k*sum(x^2) - sum(x)^2) / sum(x)^2, with the sign
\* of the mean; 0.0 is num = 0.
ZeroVariance == [num |-> 0, den |-> 1, neg |-> FALSE]

_calculate_variance(values) ==
  IF Len(values) < 2 THEN ZeroVariance
  ELSE LET S == SeqSum(values)
           Q == SeqSumSq(values)
       IN IF S = 0 THEN ZeroVariance
          ELSE [num |-> Len(values) * Q - S * S, den |-> S * S, neg |-> S < 0]

ExceedsMaxVariance_inclusive(cv) ==
  /\ ~cv.neg
  /\ cv.num * MAX_SPACING_VARIANCE.den * MAX_SPACING_VARIANCE.den
       >= MAX_SPACING_VARIANCE.num * MAX_SPACING_VARIANCE.num * cv.den

\* variance > self.MAX_SPACING_VARIANCE
ExceedsMaxVariance(cv) ==
  /\ ~cv.neg
  /\ cv.num * MAX_SPACING_VARIANCE.den * MAX_SPACING_VARIANCE.den
       > MAX_SPACING_VARIANCE.num * MAX_SPACING_VARIANCE.num * cv.den

\* f"{variance:.1%}": the coefficient of variation in tenths of a percent,
\* rounded to nearest
PerMille(cv) ==
  LET \* floor(sqrt(n)) for lo*lo <= n < hi*hi
      RECURSIVE ISqrtBin(_, _, _)
      ISqrtBin(n, lo, hi) ==
        IF hi - lo <= 1 THEN lo
        ELSE LET mid == (lo + hi) \div 2
             IN IF mid * mid <= n THEN ISqrtBin(n, mid, hi)
                ELSE ISqrtBin(n, lo, mid)
      \* floor(10^digits * (q + r/b)) by long division (0 <= r < b)
      RECURSIVE LongDiv(_, _, _, _)
      LongDiv(q, r, b, digits) ==
        IF digits = 0 THEN q
        ELSE LongDiv(10 * q + (10 * r) \div b, (10 * r) % b, b, digits - 1)
      \* floor((2000 cv)^2)
      d == LongDiv((4 * cv.num) \div cv.den, (4 * cv.num) % cv.den, cv.den, 6)
      t == ISqrtBin(d, 0, 46340)
  IN (t + 1) \div 2

\* ------------------------------------------- binary64 arithmetic (pure)
\* A natural number is the sequence of its digits in base 2^15, least
\* significant first, without leading zero digits; 0 is <<>>.
LimbBits == 15
Limb == 2 ^ LimbBits

\* a without its leading zero digits
BNorm(a) ==
  LET nz == {i \in DOMAIN a : a[i] # 0}
  IN IF nz = {} THEN <<>>
     ELSE SubSeq(a, 1, CHOOSE i \in nz : \A j \in nz : j <= i)

RECURSIVE BAdd(_, _)
BAdd(a, b) ==
  IF a = <<>> THEN b
  ELSE IF b = <<>> THEN a
  ELSE LET d == a[1] + b[1]
           rest == BAdd(Tail(a), Tail(b))
       IN <<d % Limb>> \o (IF d < Limb THEN rest ELSE BAdd(rest, <<1>>))

\* a - b for a >= b
RECURSIVE BSub(_, _)
BSub(a, b) ==
  IF b = <<>> THEN a
  ELSE LET d == a[1] - b[1]
           rest == IF d >= 0 THEN BSub(Tail(a), Tail(b))
                   ELSE BSub(BSub(Tail(a), <<1>>), Tail(b))
       IN IF d = 0 /\ rest = <<>> THEN <<>>
          ELSE <<(IF d >= 0 THEN d ELSE d + Limb)>> \o rest

\* -1, 0, 1 as a < b, a = b, a > b
BCmp(a, b) ==
  IF Len(a) # Len(b) THEN (IF Len(a) < Len(b) THEN -1 ELSE 1)
  ELSE LET D == {i \in DOMAIN a : a[i] # b[i]}
       IN IF D = {} THEN 0
          ELSE LET i == CHOOSE j \in D : \A k \in D : k <= j
               IN IF a[i] < b[i] THEN -1 ELSE 1

\* a * b by rows: a times the lowest digit of b is the low halves of the
\* digit products plus their high halves one place up
RECURSIVE BMul(_, _)
BMul(a, b) ==
  IF a = <<>> \/ b = <<>> THEN <<>>
  ELSE LET row == BNorm(BAdd([i \in DOMAIN a |-> (a[i] * b[1]) % Limb],
                             <<0>> \o [i \in DOMAIN a |-> (a[i] * b[1]) \div Limb]))
           rest == BMul(a, Tail(b))
       IN BAdd(row, IF rest = <<>> THEN <<>> ELSE <<0>> \o rest)

\* a * 2^s
BShl(a, s) ==
  LET t == 2 ^ (s % LimbBits)
      d(i) == IF i \in DOMAIN a THEN a[i] * t ELSE 0
  IN IF a = <<>> THEN <<>>
     ELSE [i \in 1..(s \div LimbBits) |-> 0]
            \o BNorm([i \in 1..Len(a) + 1 |-> (d(i) % Limb) + (d(i - 1) \div Limb)])

\* floor(a / 2^s)
BShr(a, s) ==
  LET b == SubSeq(a, s \div LimbBits + 1, Len(a))
      t == 2 ^ (s % LimbBits)
  IN IF s \div LimbBits >= Len(a) THEN <<>>
     ELSE BNorm([i \in DOMAIN b |->
                   (b[i] \div t)
                     + (IF i < Len(b) THEN (b[i + 1] % t) * (Limb \div t) ELSE 0)])

\* the largest d in lo..hi-1 with b * d <= r  (b * lo <= r < b * hi)
RECURSIVE QuotDigit(_, _, _, _)
QuotDigit(r, b, lo, hi) ==
  IF hi - lo <= 1 THEN lo
  ELSE LET mid == (lo + hi) \div 2
       IN IF BCmp(BMul(b, <<mid>>), r) <= 0 THEN QuotDigit(r, b, mid, hi)
          ELSE QuotDigit(r, b, lo, mid)

\* quotient and remainder of a / b (b > 0) by long division: the digits
\* above the lowest one first, then the lowest one
RECURSIVE BDivMod(_, _)
BDivMod(a, b) ==
  IF a = <<>> THEN [q |-> <<>>, r |-> <<>>]
  ELSE LET h == BDivMod(Tail(a), b)
           r == BNorm(<<a[1]>> \o h.r)
           d == QuotDigit(r, b, 0, Limb)
       IN [q |-> IF d = 0 /\ h.q = <<>> THEN <<>> ELSE <<d>> \o h.q,
           r |-> BSub(r, BMul(b, <<d>>))]

\* floor(sqrt(n)) from s, the bits of the root above bit i: its bits from
\* bit i down are added
RECURSIVE BSqrt(_, _, _)
BSqrt(n, s, i) ==
  IF i < 0 THEN s
  ELSE LET c == BAdd(s, BShl(<<1>>, i))
       IN IF BCmp(BMul(c, c), n) <= 0 THEN BSqrt(n, c, i - 1)
          ELSE BSqrt(n, s, i - 1)

\* A float is [neg, m, e] with value (-1)^neg * m * 2^e, where m has exactly
\* Precision bits, or is 0 with e = 0 (the sign of a zero is not kept).
\* Exponents are not bounded: the values used stay far from overflow and
\* underflow.
Precision == 53

FZero == [neg |-> FALSE, m |-> <<>>, e |-> 0]

\* the float nearest to (-1)^neg * (m + f) * 2^e, ties to even, where
\* 0 <= f < 1 and inexact says f > 0; m has more than Precision + 1 bits
\* whenever inexact
FRound(neg, m, inexact, e) ==
  LET BitLen(a) ==
        LimbBits * (Len(a) - 1)
          + (CHOOSE k \in 1..LimbBits : 2 ^ (k - 1) <= a[Len(a)] /\ a[Len(a)] < 2 ^ k)
  IN IF m = <<>> THEN FZero
     ELSE IF BitLen(m) <= Precision
       THEN [neg |-> neg, m |-> BShl(m, Precision - BitLen(m)),
             e |-> e - (Precision - BitLen(m))]
     ELSE LET d == BitLen(m) - Precision
              kept == BShr(m, d)
              low == BSub(m, BShl(kept, d))
              half == BShl(<<1>>, d - 1)
              c == BCmp(low, half)
              up == c > 0 \/ (c = 0 /\ (inexact \/ kept[1] % 2 = 1))
              r == IF up THEN BAdd(kept, <<1>>) ELSE kept
          IN IF BitLen(r) > Precision
               THEN [neg |-> neg, m |-> BShr(r, 1), e |-> e + d + 1]
               ELSE [neg |-> neg, m |-> r, e |-> e + d]

\* float(n) for an int of magnitude below 2^31
FFromInt(n) ==
  LET a == IF n < 0 THEN 0 - n ELSE n
  IN FRound(n < 0, BNorm(<<a % Limb, (a \div Limb) % Limb, a \div (Limb * Limb)>>),
            FALSE, 0)

\* a + b: the exact sum, rounded
FAdd(a, b) ==
  IF a = FZero THEN b
  ELSE IF b = FZero THEN a
  ELSE LET e == IF a.e < b.e THEN a.e ELSE b.e
           ma == BShl(a.m, a.e - e)
           mb == BShl(b.m, b.e - e)
           c == BCmp(ma, mb)
       IN IF a.neg = b.neg THEN FRound(a.neg, BAdd(ma, mb), FALSE, e)
          ELSE IF c = 0 THEN FZero
          ELSE IF c > 0 THEN FRound(a.neg, BSub(ma, mb), FALSE, e)
          ELSE FRound(b.neg, BSub(mb, ma), FALSE, e)

FSub(a, b) == FAdd(a, IF b = FZero THEN b ELSE [b EXCEPT !.neg = ~@])

FMul(a, b) ==
  IF a = FZero \/ b = FZero THEN FZero
  ELSE FRound(a.neg # b.neg, BMul(a.m, b.m), FALSE, a.e + b.e)

\* a / b for b # 0: Precision + 2 or more quotient bits and the remainder
FDiv(a, b) ==
  IF a = FZero THEN FZero
  ELSE LET dm == BDivMod(BShl(a.m, Precision + 3), b.m)
       IN FRound(a.neg # b.neg, dm.q, dm.r # <<>>, a.e - b.e - (Precision + 3))

\* math.sqrt(a) for a >= 0: the root of the mantissa taken to Precision + 2
\* or more bits, which is below 2^(Precision + 2)
FSqrt(a) ==
  IF a = FZero THEN FZero
  ELSE LET odd == a.e % 2 # 0
           e == IF odd THEN a.e - 1 ELSE a.e
           m == BShl(a.m, (IF odd THEN 1 ELSE 0) + 2 * (Precision \div 2 + 2))
           s == BSqrt(m, <<>>, Precision + 1)
       IN FRound(FALSE, s, BCmp(BMul(s, s), m) # 0, e \div 2 - (Precision \div 2 + 2))

\* sum(values): 0 + v1 + v2 + ... from left to right
RECURSIVE FSum(_)
FSum(values) ==
  IF values = <<>> THEN FZero
  ELSE FAdd(FSum(SubSeq(values, 1, Len(values) - 1)), values[Len(values)])

\* mean = sum(values) / len(values)
Mean(values) == FDiv(FSum(values), FFromInt(Len(values)))

_calculate_variance_float_short(values) ==
  IF Len(values) < 3 THEN FZero
  ELSE LET mean == Mean(values)
       IN IF mean = FZero THEN FZero
          ELSE LET sq == [i \in DOMAIN values |->
                            FMul(FSub(values[i], mean), FSub(values[i], mean))]
                   variance == FDiv(FSum(sq), FFromInt(Len(values)))
                   std == FSqrt(variance)
               IN FDiv(std, mean)

\* _calculate_variance on floats, operation by operation: (x - mean) ** 2 is
\* the rounded product and math.sqrt the rounded root
_calculate_variance_float(values) ==
  IF Len(values) < 2 THEN FZero
  ELSE LET mean == Mean(values)
       IN IF mean = FZero THEN FZero
          ELSE LET sq == [i \in DOMAIN values |->
                            FMul(FSub(values[i], mean), FSub(values[i], mean))]
                   variance == FDiv(FSum(sq), FFromInt(Len(values)))
                   std == FSqrt(variance)
               IN FDiv(std, mean)

\* ------------------------------------------------------------- messages
\* An issue or warning string is kept as its kind and the number formatted
\* into it (0 when the text has none); Template gives the characters before
\* and after the number.
Msg(kind, n) == [kind |-> kind, n |-> n]

Template ==
  [ SmallText |-> [pre |-> <<"S","m","a","l","l"," ","t","e","x","t"," ","d","e","t","e","c","t","e","d",":"," ">>,
        post |-> <<" ","e","l","e","m","e","n","t","s"," ","w","i","t","h"," ","f","o","n","t"," ","s","i","z","e"," ","<"," ","1","2","p","x">>],
    HSpacing |-> [pre |-> <<"I","n","c","o","n","s","i","s","t","e","n","t"," ","h","o","r","i","z","o","n","t","a","l"," ","s","p","a","c","i","n","g"," ","(","v","a","r","i","a","n","c","e",":"," ">>,
        post |-> <<")">>],
    VSpacing |-> [pre |-> <<"I","n","c","o","n","s","i","s","t","e","n","t"," ","v","e","r","t","i","c","a","l"," ","s","p","a","c","i","n","g"," ","(","v","a","r","i","a","n","c","e",":"," ">>,
        post |-> <<")">>],
    Alignment |-> [pre |-> <<"F","e","w"," ","a","l","i","g","n","e","d"," ","e","l","e","m","e","n","t","s"," ","d","e","t","e","c","t","e","d"," ","-"," ","c","o","n","s","i","d","e","r"," ","u","s","i","n","g"," ","a","l","i","g","n","m","e","n","t"," ","t","o","o","l","s">>,
        post |-> <<>>],
    Overlap |-> [pre |-> <<"O","v","e","r","l","a","p","p","i","n","g"," ","e","l","e","m","e","n","t","s"," ","d","e","t","e","c","t","e","d",":"," ">>,
        post |-> <<" ","p","a","i","r","s">>],
    Arrows |-> [pre |-> <<"D","i","s","c","o","n","n","e","c","t","e","d"," ","a","r","r","o","w","s",":"," ">>,
        post |-> <<" ","a","r","r","o","w","s"," ","n","o","t"," ","p","r","o","p","e","r","l","y"," ","c","o","n","n","e","c","t","e","d">>],
    Hierarchy |-> [pre |-> <<"A","l","l"," ","e","l","e","m","e","n","t","s"," ","a","r","e"," ","s","i","m","i","l","a","r"," ","s","i","z","e"," ","-"," ","c","o","n","s","i","d","e","r"," ","u","s","i","n","g"," ","s","i","z","e"," ","f","o","r"," ","v","i","s","u","a","l"," ","h","i","e","r","a","r","c","h","y">>,
        post |-> <<>>],
    Empty |-> [pre |-> <<"E","m","p","t","y"," ","d","i","a","g","r","a","m">>,
        post |-> <<>>] ]

Kinds == DOMAIN Template

\* str.lower()
Lower(t) ==
  LET UpperCase == <<"A","B","C","D","E","F","G","H","I","J","K","L","M",
                     "N","O","P","Q","R","S","T","U","V","W","X","Y","Z">>
      LowerCase == <<"a","b","c","d","e","f","g","h","i","j","k","l","m",
                     "n","o","p","q","r","s","t","u","v","w","x","y","z">>
  IN [i \in DOMAIN t |->
        IF \E k \in DOMAIN UpperCase : UpperCase[k] = t[i]
          THEN LowerCase[CHOOSE k \in DOMAIN UpperCase : UpperCase[k] = t[i]]
          ELSE t[i]]

\* needle in hay
Contains(needle, hay) ==
  \E i \in 1..(Len(hay) - Len(needle) + 1) :
     \A j \in DOMAIN needle : hay[i + j - 1] = needle[j]

Needle ==
  [ SmallText |-> <<"S","m","a","l","l"," ","t","e","x","t">>,
    Spacing |-> <<"s","p","a","c","i","n","g">>,
    Aligned |-> <<"a","l","i","g","n","e","d">>,
    Overlapping |-> <<"O","v","e","r","l","a","p","p","i","n","g">>,
    Disconnected |-> <<"D","i","s","c","o","n","n","e","c","t","e","d"," ","a","r","r","o","w","s">>,
    Hierarchy |-> <<"v","i","s","u","a","l"," ","h","i","e","r","a","r","c","h","y">> ]
Needles == {Needle[k] : k \in DOMAIN Needle}

\* needle in message, and needle in message.lower(), per kind of message.
\* The number formatted between pre and post consists of digits, "." and "%",
\* none of which occurs in a needle, so a match lies within pre or within post.
InText == [k \in Kinds |-> [nd \in Needles |->
             Contains(nd, Template[k].pre) \/ Contains(nd, Template[k].post)]]
InLowerText == [k \in Kinds |-> [nd \in Needles |->
             Contains(nd, Lower(Template[k].pre)) \/ Contains(nd, Lower(Template[k].post))]]

\* any(needle in m for m in msgs)
AnyHas(needle, msgs) == \E i \in DOMAIN msgs : InText[msgs[i].kind][needle]
AnyLowerHas(needle, msgs) == \E i \in DOMAIN msgs : InLowerText[msgs[i].kind][needle]

_generate_suggestions_silent(issues, warnings) ==
  LET s1 == IF AnyHas(Needle.SmallText, issues)
              THEN <<"Increase font size to at least 12px for better readability">> ELSE <<>>
      s2 == IF AnyLowerHas(Needle.Spacing, warnings)
              THEN <<"Use consistent spacing (e.g., 50px, 100px, 150px) between elements">> ELSE <<>>
      s3 == IF AnyLowerHas(Needle.Aligned, warnings)
              THEN <<"Align elements to create visual order (left/center/right or top/middle/bottom)">> ELSE <<>>
      s4 == IF AnyHas(Needle.Overlapping, issues)
              THEN <<"Separate overlapping elements or increase spacing">> ELSE <<>>
      s5 == IF AnyHas(Needle.Disconnected, issues)
              THEN <<"Connect all arrows to shapes using bind-arrow command">> ELSE <<>>
      s6 == IF AnyLowerHas(Needle.Hierarchy, warnings)
              THEN <<"Use different sizes for different importance levels (larger = more important)">> ELSE <<>>
  IN s1 \o s2 \o s3 \o s4 \o s5 \o s6

_generate_suggestions(issues, warnings) ==
  LET s1 == IF AnyHas(Needle.SmallText, issues)
              THEN <<"Increase font size to at least 12px for better readability">> ELSE <<>>
      s2 == IF AnyLowerHas(Needle.Spacing, warnings)
              THEN <<"Use consistent spacing (e.g., 50px, 100px, 150px) between elements">> ELSE <<>>
      s3 == IF AnyLowerHas(Needle.Aligned, warnings)
              THEN <<"Align elements to create visual order (left/center/right or top/middle/bottom)">> ELSE <<>>
      s4 == IF AnyHas(Needle.Overlapping, issues)
              THEN <<"Separate overlapping elements or increase spacing">> ELSE <<>>
      s5 == IF AnyHas(Needle.Disconnected, issues)
              THEN <<"Connect all arrows to shapes using bind-arrow command">> ELSE <<>>
      s6 == IF AnyLowerHas(Needle.Hierarchy, warnings)
              THEN <<"Use different sizes for different importance levels (larger = more important)">> ELSE <<>>
      all == s1 \o s2 \o s3 \o s4 \o s5 \o s6
  IN IF all = <<>> THEN <<"Diagram looks good! No major issues detected.">> ELSE all

\* ------------------------------------------------------ score to grade
_calculate_grade_strict(score) ==
  IF score > 90 THEN "A"
  ELSE IF score >= 80 THEN "B"
  ELSE IF score >= 70 THEN "C"
  ELSE IF score >= 60 THEN "D"
  ELSE "F"

_calculate_grade(score) ==
  IF score >= 90 THEN "A"
  ELSE IF score >= 80 THEN "B"
  ELSE IF score >= 70 THEN "C"
  ELSE IF score >= 60 THEN "D"
  ELSE "F"

_quality_level(score) ==
  IF score >= 90 THEN "Excellent"
  ELSE IF score >= 80 THEN "Good"
  ELSE IF score >= 70 THEN "Fair"
  ELSE IF score >= 60 THEN "Poor"
  ELSE "Needs Improvement"

\* ------------------------------------------------- objects and the heap
\* A machine m is [heap, self, exc]: heap maps the address of every list
\* object to its items, self is the VisualAnalyzer instance (issues and
\* warnings are addresses), exc is TRUE once an exception is propagating.
NewAddr(used) ==
  CHOOSE a \in 1..(Cardinality(used) + 1) :
     a \notin used /\ \A b \in 1..(a - 1) : b \in used

\* a new list object holding items
Alloc(h, items) ==
  LET a == NewAddr(DOMAIN h) IN [addr |-> a, heap |-> (a :> items) @@ h]

\* self.issues.append(msg) / self.warnings.append(msg)
AppendIssue(m, msg) == [m EXCEPT !.heap[m.self.issues] = Append(@, msg)]
AppendWarning(m, msg) == [m EXCEPT !.heap[m.self.warnings] = Append(@, msg)]

\* VisualAnalyzer()
NewAnalyzer ==
  LET l1 == Alloc(<<>>, <<>>)
      l2 == Alloc(l1.heap, <<>>)
  IN [heap |-> l2.heap,
      self |-> [issues |-> l1.addr, warnings |-> l2.addr, score |-> InitialScore],
      exc |-> FALSE]

Reset_keep(m) == [m EXCEPT !.self.score = InitialScore]

Reset_inplace(m) ==
  [m EXCEPT !.heap[m.self.issues] = <<>>,
            !.heap[m.self.warnings] = <<>>,
            !.self.score = InitialScore]

\* self.issues = []; self.warnings = []; self.score = 100
Reset(m) ==
  LET l1 == Alloc(m.heap, <<>>)
      l2 == Alloc(l1.heap, <<>>)
  IN [m EXCEPT !.heap = l2.heap,
               !.self = [issues |-> l1.addr, warnings |-> l2.addr,
                         score |-> InitialScore]]

\* ------------------------------------------------------------ the checks
NoType == "<None>"
IsShape_loose(e) == Get(e, "type", NoType) \notin {"text", "arrow"}
IsShape(e) == Get(e, "type", NoType) \in {"rectangle", "ellipse", "diamond"}
IsText(e) == Get(e, "type", NoType) = "text"
IsArrow(e) == Get(e, "type", NoType) = "arrow"

_check_text_readability_inclusive(m, elements) ==
  LET texts == SelectSeq(elements, IsText)
      small_texts == SelectSeq(texts,
                       LAMBDA t : Get(t, "fontSize", DefaultFontSize) <= MIN_TEXT_SIZE)
  IN IF Len(small_texts) > 0
       THEN AppendIssue(m, Msg("SmallText", Len(small_texts)))
       ELSE m

_check_text_readability(m, elements) ==
  LET texts == SelectSeq(elements, IsText)
      small_texts == SelectSeq(texts,
                       LAMBDA t : Get(t, "fontSize", DefaultFontSize) < MIN_TEXT_SIZE)
  IN IF Len(small_texts) > 0
       THEN AppendIssue(m, Msg("SmallText", Len(small_texts)))
       ELSE m

Gaps_neighbours(shapes, dir) ==
  LET gap(p) == _calculate_gap(shapes[p[1]], shapes[p[2]])
      sel == SelectSeq(PairSeq(Len(shapes)),
               LAMBDA p : p[2] = p[1] + 1 /\ gap(p).direction = dir)
  IN [k \in DOMAIN sel |-> gap(sel[k]).distance]

\* the distances of the gaps with the given direction, in pair order
Gaps(shapes, dir) ==
  LET gap(p) == _calculate_gap(shapes[p[1]], shapes[p[2]])
      sel == SelectSeq(PairSeq(Len(shapes)), LAMBDA p : gap(p).direction = dir)
  IN [k \in DOMAIN sel |-> gap(sel[k]).distance]

_check_spacing_consistency(m, elements) ==
  LET shapes == SelectSeq(elements, IsShape)
      h_gaps == Gaps(shapes, "horizontal")
      v_gaps == Gaps(shapes, "vertical")
      hv == _calculate_variance(h_gaps)
      vv == _calculate_variance(v_gaps)
      mh == IF Len(h_gaps) > 0 /\ ExceedsMaxVariance(hv)
              THEN AppendWarning(m, Msg("HSpacing", PerMille(hv))) ELSE m
      mv == IF Len(v_gaps) > 0 /\ ExceedsMaxVariance(vv)
              THEN AppendWarning(mh, Msg("VSpacing", PerMille(vv))) ELSE mh
  IN IF Len(shapes) < 2 THEN m ELSE mv

_count_near_values_strict(values, threshold) ==
  IF Len(values) < 2 THEN 0
  ELSE Cardinality({p \in (DOMAIN values) \X (DOMAIN values) :
                      p[1] < p[2] /\ Abs(values[p[1]] - values[p[2]]) < threshold})

_count_near_values(values, threshold) ==
  IF Len(values) < 2 THEN 0
  ELSE Cardinality({p \in (DOMAIN values) \X (DOMAIN values) :
                      p[1] < p[2] /\ Abs(values[p[1]] - values[p[2]]) <= threshold})

\* e.get('x') and e.get('y') have no default: None + number raises TypeError.
\* Edges and centers are kept doubled (2x, 2x + width), and so is the
\* threshold; aligned_count < len(shapes) * 0.3 is 10 * count < 3 * len.
_check_alignment(m, elements) ==
  LET shapes == SelectSeq(elements, IsShape)
      left_edges == [i \in DOMAIN shapes |-> 2 * shapes[i].x]
      top_edges == [i \in DOMAIN shapes |-> 2 * shapes[i].y]
      centers_x == [i \in DOMAIN shapes |-> 2 * shapes[i].x + Get(shapes[i], "width", 0)]
      centers_y == [i \in DOMAIN shapes |-> 2 * shapes[i].y + Get(shapes[i], "height", 0)]
      aligned_count ==
          _count_near_values(left_edges, 2 * MIN_ALIGNMENT_THRESHOLD)
        + _count_near_values(top_edges, 2 * MIN_ALIGNMENT_THRESHOLD)
        + _count_near_values(centers_x, 2 * MIN_ALIGNMENT_THRESHOLD)
        + _count_near_values(centers_y, 2 * MIN_ALIGNMENT_THRESHOLD)
  IN IF Len(shapes) < 2 THEN m
     ELSE IF \E i \in DOMAIN shapes : IsNone(shapes[i], "x") \/ IsNone(shapes[i], "y")
       THEN [m EXCEPT !.exc = TRUE]
     ELSE IF 10 * aligned_count < 3 * Len(shapes)
       THEN AppendWarning(m, Msg("Alignment", 0))
     ELSE m

_check_overlaps_all(m, elements) ==
  LET overlaps == SelectSeq(PairSeq(Len(elements)),
                    LAMBDA p : _elements_overlap(elements[p[1]], elements[p[2]]))
  IN IF Len(overlaps) > 0
       THEN AppendIssue(m, Msg("Overlap", Len(overlaps)))
       ELSE m

_check_overlaps_unless_reported(m, elements) ==
  LET shapes == SelectSeq(elements, IsShape)
      overlaps == SelectSeq(PairSeq(Len(shapes)),
                    LAMBDA p : _elements_overlap(shapes[p[1]], shapes[p[2]]))
  IN IF Len(overlaps) > 0 /\ Len(m.heap[m.self.issues]) = 0
       THEN AppendIssue(m, Msg("Overlap", Len(overlaps)))
       ELSE m

_check_overlaps_each(m, elements) ==
  LET shapes == SelectSeq(elements, IsShape)
      overlaps == SelectSeq(PairSeq(Len(shapes)),
                    LAMBDA p : _elements_overlap(shapes[p[1]], shapes[p[2]]))
  IN [m EXCEPT !.heap[m.self.issues] =
                  @ \o [k \in 1..Len(overlaps) |-> Msg("Overlap", 1)]]

_check_overlaps(m, elements) ==
  LET shapes == SelectSeq(elements, IsShape)
      overlaps == SelectSeq(PairSeq(Len(shapes)),
                    LAMBDA p : _elements_overlap(shapes[p[1]], shapes[p[2]]))
  IN IF Len(overlaps) > 0
       THEN AppendIssue(m, Msg("Overlap", Len(overlaps)))
       ELSE m

_check_arrows_both(m, elements) ==
  LET arrows == SelectSeq(elements, IsArrow)
      disconnected == SelectSeq(arrows,
                        LAMBDA a : ~Truthy(a, "startBinding") /\ ~Truthy(a, "endBinding"))
  IN IF Len(disconnected) > 0
       THEN AppendIssue(m, Msg("Arrows", Len(disconnected)))
       ELSE m

_check_arrows(m, elements) ==
  LET arrows == SelectSeq(elements, IsArrow)
      disconnected == SelectSeq(arrows,
                        LAMBDA a : ~Truthy(a, "startBinding") \/ ~Truthy(a, "endBinding"))
  IN IF Len(disconnected) > 0
       THEN AppendIssue(m, Msg("Arrows", Len(disconnected)))
       ELSE m

_check_visual_hierarchy_unguarded(m, elements) ==
  LET shapes == SelectSeq(elements, IsShape)
      sizes == [i \in DOMAIN shapes |->
                  Get(shapes[i], "width", 0) * Get(shapes[i], "height", 0)]
  IN IF Len(shapes) < 1 THEN m
     ELSE IF SeqMax(sizes) > 0 /\ 20 * SeqMin(sizes) > 19 * SeqMax(sizes)
       THEN AppendWarning(m, Msg("Hierarchy", 0))
     ELSE m

_check_visual_hierarchy_inclusive(m, elements) ==
  LET shapes == SelectSeq(elements, IsShape)
      sizes == [i \in DOMAIN shapes |->
                  Get(shapes[i], "width", 0) * Get(shapes[i], "height", 0)]
  IN IF Len(shapes) < 2 THEN m
     ELSE IF SeqMax(sizes) > 0 /\ 20 * SeqMin(sizes) >= 19 * SeqMax(sizes)
       THEN AppendWarning(m, Msg("Hierarchy", 0))
     ELSE m

\* min_size / max_size > 0.95 is 20 * min_size > 19 * max_size for max_size > 0
_check_visual_hierarchy(m, elements) ==
  LET shapes == SelectSeq(elements, IsShape)
      sizes == [i \in DOMAIN shapes |->
                  Get(shapes[i], "width", 0) * Get(shapes[i], "height", 0)]
  IN IF Len(shapes) < 2 THEN m
     ELSE IF SeqMax(sizes) > 0 /\ 20 * SeqMin(sizes) > 19 * SeqMax(sizes)
       THEN AppendWarning(m, Msg("Hierarchy", 0))
     ELSE m

\* ----------------------------------------------------------- the report
NoReport == [absent |-> TRUE]

FinalScore_added(m) ==
  LET penalty == Len(m.heap[m.self.issues]) * IssuePenalty
                   + Len(m.heap[m.self.warnings]) * WarningPenalty
  IN [m EXCEPT !.self.score = Max2(0, m.self.score + penalty)]

FinalScore_swapped(m) ==
  LET penalty == Len(m.heap[m.self.issues]) * WarningPenalty
                   + Len(m.heap[m.self.warnings]) * IssuePenalty
  IN [m EXCEPT !.self.score = Max2(0, m.self.score - penalty)]

FinalScore_penalty(m) ==
  LET penalty == Len(m.heap[m.self.issues]) * IssuePenalty
                   + Len(m.heap[m.self.warnings]) * WarningPenalty
  IN [m EXCEPT !.self.score = Max2(0, penalty)]

FinalScore_heavy(m) ==
  LET penalty == Len(m.heap[m.self.issues]) * IssuePenalty
                   + Len(m.heap[m.self.warnings]) * 3 * WarningPenalty
  IN [m EXCEPT !.self.score = Max2(0, m.self.score - penalty)]

\* penalty = len(self.issues) * 10 + len(self.warnings) * 5
\* self.score = max(0, self.score - penalty)
FinalScore(m) ==
  LET penalty == Len(m.heap[m.self.issues]) * IssuePenalty
                   + Len(m.heap[m.self.warnings]) * WarningPenalty
  IN [m EXCEPT !.self.score = Max2(0, m.self.score - penalty)]

EmptyReport_shared(m) ==
  LET m1 == AppendIssue(m, Msg("Empty", 0))
  IN [m |-> m1,
      ret |-> [score |-> 0, grade |-> "F",
               issues |-> m1.self.issues, warnings |-> m1.self.warnings,
               suggestions |-> <<"Add elements to the diagram">>]]

\* the literal returned for a snapshot without elements; its two lists are
\* new objects
EmptyReport(m) ==
  LET l1 == Alloc(m.heap, <<Msg("Empty", 0)>>)
      l2 == Alloc(l1.heap, <<>>)
  IN [m |-> [m EXCEPT !.heap = l2.heap],
      ret |-> [score |-> 0, grade |-> "F",
               issues |-> l1.addr, warnings |-> l2.addr,
               suggestions |-> <<"Add elements to the diagram">>]]

\* VisualAnalyzer.analyze: the machine after the call and the value returned
\* (NoReport when the call raised)
analyze(m, md) ==
  LET m0 == Reset(m)
      elements == Get(md, "elements", <<>>)
  IN IF Len(elements) = 0 THEN EmptyReport(m0)
     ELSE
       LET m1 == _check_text_readability(m0, elements)
           m2 == _check_spacing_consistency(m1, elements)
           m3 == _check_alignment(m2, elements)
       IN IF m3.exc THEN [m |-> m3, ret |-> NoReport]
          ELSE
            LET m4 == _check_overlaps(m3, elements)
                m5 == _check_arrows(m4, elements)
                m6 == _check_visual_hierarchy(m5, elements)
                m7 == FinalScore(m6)
            IN [m |-> m7,
                ret |-> [score |-> m7.self.score,
                         grade |-> _calculate_grade(m7.self.score),
                         issues |-> m7.self.issues,
                         warnings |-> m7.self.warnings,
                         suggestions |-> _generate_suggestions(m7.heap[m7.self.issues],
                                                               m7.heap[m7.self.warnings]),
                         element_count |-> Len(elements),
                         quality_level |-> _quality_level(m7.self.score)]]

\* ------------------------------------------------------------- inputs
Binding(id) == [elementId |-> id]

Shape(t, id, x, y, w, h) ==
  [type |-> t, id |-> id, x |-> x, y |-> y, width |-> w, height |-> h]

\* the elements snapshots are made of
Pool ==
  << Shape("rectangle", "rect1", 10, 10, 20, 10),
     Shape("rectangle", "rect2", 15, 12, 20, 10),
     Shape("diamond", "dia1", 30, 10, 20, 10),
     Shape("ellipse", "ell1", 40, 10, 20, 10),
     [type |-> "rectangle", id |-> "rect4", x |-> 10, y |-> 40, width |-> 30,
        height |-> 20, fontSize |-> 8],
     [type |-> "rectangle", id |-> "rect5", width |-> 20, height |-> 10],
     [type |-> "text", id |-> "text1", x |-> 12, y |-> 12, fontSize |-> 8],
     [type |-> "text", id |-> "text2", x |-> 12, y |-> 12, fontSize |-> 12],
     [type |-> "text", id |-> "text3", x |-> 12, y |-> 12],
     [type |-> "arrow", id |-> "arrow1", x |-> 30, y |-> 15],
     [type |-> "arrow", id |-> "arrow2", startBinding |-> Binding("rect1"),
        endBinding |-> Binding("ell1")],
     [type |-> "arrow", id |-> "arrow3", startBinding |-> Binding("rect1"),
        endBinding |-> Null],
     [type |-> "frame", id |-> "frame1", x |-> 0, y |-> 0, width |-> 100,
        height |-> 100, fontSize |-> 8] >>

\* the elements of Pool at the indices in I, in Pool order
RECURSIVE Pick(_, _)
Pick(I, i) ==
  IF i > Len(Pool) THEN <<>>
  ELSE (IF i \in I THEN <<Pool[i]>> ELSE <<>>) \o Pick(I, i + 1)

Snapshots ==
  {Pick(I, 1) : I \in {J \in SUBSET (DOMAIN Pool) : Cardinality(J) <= MaxElems}}

\* two rectangles that overlap
OverlapFixture ==
  << Shape("rectangle", "rect1", 100, 100, 200, 100),
     Shape("rectangle", "rect2", 150, 120, 200, 100) >>

Label(id, x, y) ==
  [type |-> "text", id |-> id, fontSize |-> 18, x |-> x, y |-> y,
   width |-> 100, height |-> 40]

\* the 3-tier architecture diagram: five boxes, three labels, two bound arrows
ThreeTierFixture ==
  << Shape("rectangle", "web", 120, 110, 180, 100),
     Shape("rectangle", "mobile", 380, 110, 180, 100),
     Shape("rectangle", "api", 120, 440, 180, 100),
     Shape("rectangle", "auth", 380, 440, 180, 100),
     Shape("rectangle", "db", 180, 770, 180, 100),
     Label("text1", 160, 140),
     Label("text2", 420, 140),
     Label("text3", 160, 470),
     [type |-> "arrow", id |-> "arrow1", x |-> 210, y |-> 210,
        startBinding |-> Binding("web"), endBinding |-> Binding("api")],
     [type |-> "arrow", id |-> "arrow2", x |-> 210, y |-> 540,
        startBinding |-> Binding("api"), endBinding |-> Binding("db")] >>

\* a row and a column of equal boxes sharing a corner box, unevenly spaced
\* on both axes (gaps 10, 50, 30 in the row and in the column)
CrossFixture ==
  << Shape("rectangle", "c0", 0, 0, 10, 10),
     Shape("rectangle", "r1", 20, 0, 10, 10),
     Shape("rectangle", "r2", 60, 0, 10, 10),
     Shape("rectangle", "d1", 0, 20, 10, 10),
     Shape("rectangle", "d2", 0, 60, 10, 10) >>

\* six equal boxes staggered along a row and a column, one over another, a
\* small text and a loose arrow: every check reports
CrowdedFixture ==
  << Shape("rectangle", "A", 0, 0, 100, 100),
     Shape("rectangle", "B", 110, 10, 100, 100),
     Shape("rectangle", "C", 400, 20, 100, 100),
     Shape("rectangle", "D", 10, 110, 100, 100),
     Shape("rectangle", "E", 20, 400, 100, 100),
     Shape("rectangle", "F", 430, 60, 100, 100),
     [type |-> "text", id |-> "tiny", x |-> 5, y |-> 5, fontSize |-> 8],
     [type |-> "arrow", id |-> "loose", x |-> 30, y |-> 15] >>

Fixtures == {OverlapFixture, ThreeTierFixture, CrossFixture, CrowdedFixture}

\* scene metadata: with an 'elements' list, or without the key
Metadatas ==
  {[elements |-> s] : s \in Snapshots \cup Fixtures} \cup {[source |-> "scene"]}

\* ---------------------------------------------------------------- state
VARIABLES
  heap,       \* the list objects reachable from the instance or a report
  analyzer,   \* the VisualAnalyzer instance: issues, warnings, score
  metadata,   \* the argument of the last analyze call
  report,     \* the value the last analyze call returned
  outcome,    \* "idle", "returned" or "raised" for the last call
  held,       \* an earlier report the caller still holds
  heldSeen,   \* what that report's lists held when it was returned
  grader,     \* harness applying _calculate_grade and _quality_level
  geom,       \* harness applying _elements_overlap to a pair of boxes
  trial,      \* harness analysing related snapshots one after the other
  calls,      \* analyze calls in progress, advanced one step at a time
  stats       \* _calculate_variance applied to a list of floats

vars == <<heap, analyzer, metadata, report, outcome, held, heldSeen, grader, geom,
          trial, calls, stats>>

ReportRefs(r) == IF r = NoReport THEN {} ELSE {r.issues, r.warnings}

NoMetadata == [absent |-> TRUE]
GraderIdle == [pc |-> "idle"]
GeomIdle == [pc |-> "idle"]
TrialIdle == [pc |-> "idle"]
CallsIdle == [pc |-> "idle"]
StatsIdle == [pc |-> "idle"]

InitAnalyzer ==
  /\ heap = NewAnalyzer.heap
  /\ analyzer = NewAnalyzer.self
  /\ metadata = NoMetadata
  /\ report = NoReport
  /\ outcome = "idle"
  /\ held = NoReport
  /\ heldSeen = NoReport

Init ==
  /\ InitAnalyzer
  /\ grader = GraderIdle
  /\ geom = GeomIdle
  /\ trial = TrialIdle
  /\ calls = CallsIdle
  /\ stats = StatsIdle

\* Addresses are names only.  After a call the lists still referenced are
\* renamed in the order instance, report, held report, and the others are
\* garbage.
RefSeq(slf, r, h) ==
  <<slf.issues, slf.warnings>>
    \o (IF r = NoReport THEN <<>> ELSE <<r.issues, r.warnings>>)
    \o (IF h = NoReport THEN <<>> ELSE <<h.issues, h.warnings>>)

FirstPos(rs, a) == CHOOSE i \in DOMAIN rs : rs[i] = a /\ \A j \in 1..(i - 1) : rs[j] # a

Rank(rs, a) == Cardinality({rs[j] : j \in 1..FirstPos(rs, a)})

RenameReport(r, rho) ==
  IF r = NoReport THEN r
  ELSE [r EXCEPT !.issues = rho[@], !.warnings = rho[@]]

\* report = analyzer.analyze(md), on the one instance
AnalyzeCall(md) ==
  \E r \in {analyze([heap |-> heap, self |-> analyzer, exc |-> FALSE], md)} :
  \E rs \in {RefSeq(r.m.self, r.ret, held)} :
  \E rho \in {[a \in {rs[i] : i \in DOMAIN rs} |-> Rank(rs, a)]} :
     /\ metadata' = md
     /\ analyzer' = [r.m.self EXCEPT !.issues = rho[@], !.warnings = rho[@]]
     /\ report' = RenameReport(r.ret, rho)
     /\ outcome' = IF r.m.exc THEN "raised" ELSE "returned"
     /\ heap' = [n \in 1..Cardinality(DOMAIN rho) |->
                   r.m.heap[CHOOSE a \in DOMAIN rho : rho[a] = n]]
     /\ held' = RenameReport(held, rho)
     /\ UNCHANGED <<heldSeen, calls, stats>>

Analyze ==
  /\ \E md \in Metadatas : AnalyzeCall(md)
  /\ UNCHANGED <<grader, geom, trial>>

Next == Analyze

Spec == Init /\ [][Next]_vars

\* ------------------------------------------ a caller that keeps a report
MaxHoldElems == 2
HoldIds == {"rect1", "rect2", "ell1", "rect5", "text1", "arrow1"}

HoldMetadatas ==
  {[elements |-> s] : s \in {t \in Snapshots :
       Len(t) <= MaxHoldElems /\ \A i \in DOMAIN t : t[i].id \in HoldIds}}

AnalyzeHeld ==
  /\ \E md \in HoldMetadatas : AnalyzeCall(md)
  /\ UNCHANGED <<grader, geom, trial>>

\* the caller keeps the report it was last given
Hold ==
  /\ outcome = "returned"
  /\ held' = report
  /\ heldSeen' = [score |-> report.score,
                  issues |-> heap[report.issues],
                  warnings |-> heap[report.warnings],
                  suggestions |-> report.suggestions]
  /\ UNCHANGED <<heap, analyzer, metadata, report, outcome, grader, geom, trial,
                 calls, stats>>

NextHold == AnalyzeHeld \/ Hold

SpecHold == Init /\ [][NextHold]_vars

\* ------------------------------------------------- grading harness
InitGrade ==
  /\ InitAnalyzer
  /\ grader \in {[pc |-> "start", score |-> s] : s \in 0..InitialScore}
  /\ geom = GeomIdle
  /\ trial = TrialIdle
  /\ calls = CallsIdle
  /\ stats = StatsIdle

\* grade = self._calculate_grade(score); level = self._quality_level(score)
Grade ==
  /\ grader.pc = "start"
  /\ grader' = [pc |-> "done", score |-> grader.score,
                grade |-> _calculate_grade(grader.score),
                level |-> _quality_level(grader.score)]
  /\ UNCHANGED <<heap, analyzer, metadata, report, outcome, held, heldSeen, geom,
                 trial, calls, stats>>

\* an analyze call whose self.score is graded next
AnalyzeGraded ==
  /\ grader.pc = "done"
  /\ \E md \in Metadatas : AnalyzeCall(md)
  /\ grader' = [pc |-> "start", score |-> analyzer'.score]
  /\ UNCHANGED <<geom, trial>>

NextGrade == Grade \/ AnalyzeGraded

SpecGrade == InitGrade /\ [][NextGrade]_vars

\* ------------------------------------------------- geometry harness
Absent == -1
Coord == 0..MaxCoord
OptCoord == Coord \cup {Absent}

\* a rectangle carrying only the attributes that are not Absent
Box(x, y, w, h) ==
  [k \in {"type"} \cup (IF x = Absent THEN {} ELSE {"x"})
                  \cup (IF y = Absent THEN {} ELSE {"y"})
                  \cup (IF w = Absent THEN {} ELSE {"width"})
                  \cup (IF h = Absent THEN {} ELSE {"height"}) |->
     CASE k = "type" -> "rectangle"
       [] k = "x" -> x
       [] k = "y" -> y
       [] k = "width" -> w
       [] k = "height" -> h]

Boxes == {Box(x, y, w, h) : x \in OptCoord, y \in OptCoord, w \in OptCoord, h \in OptCoord}

InitGeom ==
  /\ InitAnalyzer
  /\ grader = GraderIdle
  /\ geom \in {[pc |-> "start", e1 |-> a, e2 |-> b] : a \in Boxes, b \in Boxes}
  /\ trial = TrialIdle
  /\ calls = CallsIdle
  /\ stats = StatsIdle

\* self._elements_overlap(e1, e2) and self._elements_overlap(e2, e1)
Overlap ==
  /\ geom.pc = "start"
  /\ geom' = [pc |-> "tested", e1 |-> geom.e1, e2 |-> geom.e2,
              fwd |-> _elements_overlap(geom.e1, geom.e2),
              rev |-> _elements_overlap(geom.e2, geom.e1)]
  /\ UNCHANGED <<heap, analyzer, metadata, report, outcome, held, heldSeen, grader,
                 trial, calls, stats>>

\* analyze on the snapshot made of the two boxes
AnalyzePair ==
  /\ geom.pc = "tested"
  /\ AnalyzeCall([elements |-> <<geom.e1, geom.e2>>])
  /\ geom' = [geom EXCEPT !.pc = "analyzed"]
  /\ UNCHANGED <<grader, trial>>

NextGeom == Overlap \/ AnalyzePair

SpecGeom == InitGeom /\ [][NextGeom]_vars

\* ------------------------------------- trials on related snapshots
\* A trial is a list of snapshots analysed one after the other on the one
\* instance; what each call gave back is recorded by value.
Observed(o, r, h) ==
  IF o = "returned"
    THEN [outcome |-> o, report |-> [r EXCEPT !.issues = h[@], !.warnings = h[@]]]
    ELSE [outcome |-> o]

InitTrial(inputs) ==
  /\ InitAnalyzer
  /\ grader = GraderIdle
  /\ geom = GeomIdle
  /\ trial = [pc |-> "run", inputs |-> inputs, results |-> <<>>]
  /\ calls = CallsIdle
  /\ stats = StatsIdle

\* result = analyzer.analyze({'elements': snapshot}) for the next snapshot
RunTrial ==
  /\ trial.pc = "run"
  /\ Len(trial.results) < Len(trial.inputs)
  /\ AnalyzeCall([elements |-> trial.inputs[Len(trial.results) + 1]])
  /\ trial' = [trial EXCEPT !.results = Append(@, Observed(outcome', report', heap'))]
  /\ UNCHANGED <<grader, geom>>

NextTrial == RunTrial

\* ------------------------------------------------------ gap harness
\* the gap of every pair of small boxes, the analysis of the pair, and the
\* analysis of three boxes taken from a row and a column of unit boxes
MaxGapCoord == 3
GapCoord == 0..MaxGapCoord

GapBoxes == {Box(x, y, w, h) : x \in GapCoord, y \in GapCoord, w \in GapCoord, h \in GapCoord}

LineBoxes ==
  {Box(x, 0, w, 1) : x \in GapCoord, w \in 0..1}
    \cup {Box(0, y, 1, h) : y \in GapCoord, h \in 0..1}

InitGap ==
  \/ /\ InitAnalyzer
     /\ grader = GraderIdle
     /\ geom \in {[pc |-> "start", e1 |-> a, e2 |-> b] : a \in GapBoxes, b \in GapBoxes}
     /\ trial = TrialIdle
     /\ calls = CallsIdle
     /\ stats = StatsIdle
  \/ \E a \in GapBoxes, b \in GapBoxes : InitTrial(<< <<a, b>> >>)
  \/ \E f \in [1..3 -> LineBoxes] : InitTrial(<<[i \in 1..3 |-> f[i]]>>)

\* self._calculate_gap(e1, e2) and self._calculate_gap(e2, e1)
Gap ==
  /\ geom.pc = "start"
  /\ geom' = [pc |-> "measured", e1 |-> geom.e1, e2 |-> geom.e2,
              fwd |-> _calculate_gap(geom.e1, geom.e2),
              rev |-> _calculate_gap(geom.e2, geom.e1)]
  /\ UNCHANGED <<heap, analyzer, metadata, report, outcome, held, heldSeen, grader,
                 trial, calls, stats>>

NextGap == Gap \/ RunTrial

SpecGap == InitGap /\ [][NextGap]_vars

\* s with e inserted after its first k elements
InsertAt(s, k, e) == SubSeq(s, 1, k) \o <<e>> \o SubSeq(s, k + 1, Len(s))

\* a snapshot and a reordering of it
Bijections(n) == {f \in [1..n -> 1..n] : \A i, j \in 1..n : f[i] = f[j] => i = j}

Reorderings(s) == {[i \in DOMAIN s |-> s[f[i]]] : f \in Bijections(Len(s))}

PermBases == {s \in Snapshots : Len(s) >= 2} \cup {CrossFixture}

InitPerm == \E s \in PermBases : \E p \in Reorderings(s) : InitTrial(<<s, p>>)

SpecPerm == InitPerm /\ [][NextTrial]_vars

\* a snapshot and the snapshot with one more element of a type no check reads
IgnoredElems ==
  { [type |-> "frame", id |-> "frame2", x |-> 0, y |-> 0, width |-> 1000,
       height |-> 1000, fontSize |-> 8],
    [type |-> "line", id |-> "line1", x |-> 12, y |-> 12, width |-> 20, height |-> 10],
    [id |-> "untyped1", x |-> 12, y |-> 12, width |-> 20, height |-> 10] }

NonEmptyBases == {s \in Snapshots : Len(s) >= 1} \cup Fixtures

InitIgnored ==
  \E s \in NonEmptyBases : \E k \in 0..Len(s), g \in IgnoredElems :
     InitTrial(<<s, InsertAt(s, k, g)>>)

SpecIgnored == InitIgnored /\ [][NextTrial]_vars

\* a snapshot and the snapshot with one more element that triggers an issue:
\* a small text, an arrow lacking a binding, or a shape over one of its shapes
SmallTexts ==
  { [type |-> "text", id |-> "small1", x |-> 12, y |-> 12, fontSize |-> 11],
    [type |-> "text", id |-> "small2", fontSize |-> 0] }

UnboundArrows ==
  { [type |-> "arrow", id |-> "loose1", x |-> 30, y |-> 15],
    [type |-> "arrow", id |-> "loose2", startBinding |-> Binding("rect1")] }

CoverShapes ==
  { Shape("rectangle", "cover1", 12, 12, 20, 10),
    Shape("ellipse", "cover2", 5, 5, 20, 30),
    Shape("diamond", "cover3", 35, 15, 10, 30) }

IssueElems(s) ==
  SmallTexts \cup UnboundArrows
    \cup {c \in CoverShapes :
            \E i \in DOMAIN s : IsShape(s[i]) /\ _elements_overlap(c, s[i])}

InitIssue ==
  \E s \in NonEmptyBases : \E k \in 0..Len(s), t \in IssueElems(s) :
     InitTrial(<<s, InsertAt(s, k, t)>>)

SpecIssue == InitIssue /\ [][NextTrial]_vars

\* snapshots of shapes whose edges and centers lie at, just within and just
\* beyond the alignment tolerance of one another
MaxAlignShapes == 3

AlignBoxes ==
  { Shape("rectangle", "a1", 0, 0, 0, 10),
    Shape("rectangle", "a2", 5, 100, 0, 10),
    Shape("ellipse", "a3", 6, 100, 0, 10),
    Shape("diamond", "a4", 6, 100, 1, 10),
    Shape("rectangle", "a5", 0, 0, 2, 10),
    Shape("rectangle", "a6", 12, 200, 0, 10),
    Shape("rectangle", "a7", 20, 94, 0, 12),
    Shape("rectangle", "a8", 30, 305, 0, 1) }

InitAlign ==
  \E n \in 2..MaxAlignShapes : \E f \in [1..n -> AlignBoxes] :
     InitTrial(<<[i \in 1..n |-> f[i]]>>)

SpecAlign == InitAlign /\ [][NextTrial]_vars

\* snapshots of shapes whose areas are 0 or lie at, just above and just below
\* the ratio 0.95 of one another (19/20 and 38/40 are exactly 0.95)
MaxHierShapes == 3

HierBoxes ==
  { Shape("rectangle", "h0", 0, 0, 0, 10),
    [type |-> "ellipse", id |-> "h1", x |-> 0, y |-> 50, height |-> 10],
    Shape("rectangle", "h19", 0, 100, 19, 1),
    Shape("diamond", "h20", 0, 150, 4, 5),
    Shape("rectangle", "h38", 0, 200, 2, 19),
    Shape("ellipse", "h39", 0, 250, 13, 3),
    Shape("rectangle", "h40", 0, 300, 8, 5),
    Shape("rectangle", "h100", 0, 350, 10, 10) }

InitHier ==
  \E n \in 2..MaxHierShapes : \E f \in [1..n -> HierBoxes] :
     InitTrial(<<[i \in 1..n |-> f[i]]>>)

SpecHier == InitHier /\ [][NextTrial]_vars

\* snapshots of equal boxes staggered along a row and along a column: the
\* gaps 7 and 13 have coefficient of variation exactly 0.3, 7 and 14 more,
\* 7 and 12 less; b10 touches b0
MaxSpacingShapes == 3

SpacingBoxes ==
  { Shape("rectangle", "b0", 0, 0, 10, 10),
    Shape("rectangle", "b10", 10, 0, 10, 10),
    Shape("ellipse", "r17", 17, 4, 10, 10),
    Shape("rectangle", "r39", 39, 8, 10, 10),
    Shape("rectangle", "r40", 40, 8, 10, 10),
    Shape("diamond", "r41", 41, 8, 10, 10),
    Shape("rectangle", "c17", 4, 17, 10, 10),
    Shape("rectangle", "c40", 8, 40, 10, 10),
    Shape("ellipse", "c41", 8, 41, 10, 10) }

InitSpacing ==
  \/ \E n \in 2..MaxSpacingShapes : \E f \in [1..n -> SpacingBoxes] :
        InitTrial(<<[i \in 1..n |-> f[i]]>>)
  \/ InitTrial(<<CrossFixture>>)

SpecSpacing == InitSpacing /\ [][NextTrial]_vars

\* ------------------------------------------ analyze, one step at a time
\* calls = [heap, insts, order, threads]: the list objects, the VisualAnalyzer
\* instances, whether the checks run in program order or in any order, and
\* per call its position, the instance it was called on, its argument, the
\* checks it has not run yet and the report it returned.  A step is the
\* reset (with the return for an empty snapshot), one check, the scoring, or
\* the building of the report.
Checks ==
  << "text_readability", "spacing_consistency", "alignment",
     "overlaps", "arrows", "visual_hierarchy" >>

Position(c) == CHOOSE i \in DOMAIN Checks : Checks[i] = c

RunCheck(c, m, elements) ==
  CASE c = "text_readability" -> _check_text_readability(m, elements)
    [] c = "spacing_consistency" -> _check_spacing_consistency(m, elements)
    [] c = "alignment" -> _check_alignment(m, elements)
    [] c = "overlaps" -> _check_overlaps(m, elements)
    [] c = "arrows" -> _check_arrows(m, elements)
    [] c = "visual_hierarchy" -> _check_visual_hierarchy(m, elements)

\* grade, suggestions and the returned dict
BuildReport(m, elements) ==
  [score |-> m.self.score,
   grade |-> _calculate_grade(m.self.score),
   issues |-> m.self.issues,
   warnings |-> m.self.warnings,
   suggestions |-> _generate_suggestions(m.heap[m.self.issues],
                                         m.heap[m.self.warnings]),
   element_count |-> Len(elements),
   quality_level |-> _quality_level(m.self.score)]

NewCall(i, md) ==
  [pc |-> "start", inst |-> i, md |-> md, todo |-> {}, ret |-> NoReport]

\* two instances, each constructed with lists of its own
TwoAnalyzers ==
  LET a == NewAnalyzer
      l3 == Alloc(a.heap, <<>>)
      l4 == Alloc(l3.heap, <<>>)
  IN [heap |-> l4.heap,
      insts |-> <<a.self, [issues |-> l3.addr, warnings |-> l4.addr,
                           score |-> InitialScore]>>]

Self_first(t) == 1

\* the instance call t was made on
Self(t) == calls.threads[t].inst

Machine(t) == [heap |-> calls.heap, self |-> calls.insts[Self(t)], exc |-> FALSE]

Advance(t, m, th) ==
  calls' = [calls EXCEPT !.heap = m.heap, !.insts[Self(t)] = m.self,
                         !.threads[t] = th]

CallReset(t) ==
  /\ calls.threads[t].pc = "start"
  /\ \E m0 \in {Reset(Machine(t))} :
       LET th == calls.threads[t]
           elements == Get(th.md, "elements", <<>>)
       IN IF Len(elements) = 0
            THEN \E r \in {EmptyReport(m0)} :
                   Advance(t, r.m, [th EXCEPT !.pc = "done", !.ret = r.ret])
            ELSE Advance(t, m0, [th EXCEPT !.pc = "checks",
                                            !.todo = {Checks[i] : i \in DOMAIN Checks}])

CallCheck(t) ==
  /\ calls.threads[t].pc = "checks"
  /\ \E c \in calls.threads[t].todo :
       /\ calls.order = "program" =>
            \A d \in calls.threads[t].todo : Position(c) <= Position(d)
       /\ \E m \in {RunCheck(c, Machine(t),
                              Get(calls.threads[t].md, "elements", <<>>))} :
            IF m.exc
              THEN Advance(t, m, [calls.threads[t] EXCEPT !.pc = "raised"])
              ELSE Advance(t, m, [calls.threads[t] EXCEPT !.todo = @ \ {c}])

CallScore(t) ==
  /\ calls.threads[t].pc = "checks"
  /\ calls.threads[t].todo = {}
  /\ \E m \in {FinalScore(Machine(t))} :
       Advance(t, m, [calls.threads[t] EXCEPT !.pc = "scored"])

CallReturn(t) ==
  /\ calls.threads[t].pc = "scored"
  /\ \E r \in {BuildReport(Machine(t), Get(calls.threads[t].md, "elements", <<>>))} :
       Advance(t, Machine(t), [calls.threads[t] EXCEPT !.pc = "done", !.ret = r])

Untouched ==
  UNCHANGED <<heap, analyzer, metadata, report, outcome, held, heldSeen, grader,
              geom, trial, stats>>

StepReset == (\E t \in DOMAIN calls.threads : CallReset(t)) /\ Untouched
StepCheck == (\E t \in DOMAIN calls.threads : CallCheck(t)) /\ Untouched
StepScore == (\E t \in DOMAIN calls.threads : CallScore(t)) /\ Untouched
StepReturn == (\E t \in DOMAIN calls.threads : CallReturn(t)) /\ Untouched

NextCalls == StepReset \/ StepCheck \/ StepScore \/ StepReturn

\* one call whose six checks run in any order
InitOrder ==
  /\ InitAnalyzer
  /\ grader = GraderIdle
  /\ geom = GeomIdle
  /\ trial = TrialIdle
  /\ stats = StatsIdle
  /\ \E md \in Metadatas :
       calls = [heap |-> NewAnalyzer.heap, insts |-> <<NewAnalyzer.self>>,
                order |-> "any", threads |-> <<NewCall(1, md)>>]

SpecOrder == InitOrder /\ [][NextCalls]_vars

\* two calls in program order, on one instance or on an instance each,
\* interleaved step by step
ConcurrentSnapshots ==
  { <<>>,
    <<Pool[7]>>,
    <<Pool[10], Pool[1]>>,
    <<Pool[1], Pool[6]>>,
    OverlapFixture,
    CrossFixture }

InitShare ==
  /\ InitAnalyzer
  /\ grader = GraderIdle
  /\ geom = GeomIdle
  /\ trial = TrialIdle
  /\ stats = StatsIdle
  /\ \E s1 \in ConcurrentSnapshots, s2 \in ConcurrentSnapshots :
       \/ calls = [heap |-> NewAnalyzer.heap, insts |-> <<NewAnalyzer.self>>,
                   order |-> "program",
                   threads |-> <<NewCall(1, [elements |-> s1]),
                                 NewCall(1, [elements |-> s2])>>]
       \/ calls = [heap |-> TwoAnalyzers.heap, insts |-> TwoAnalyzers.insts,
                   order |-> "program",
                   threads |-> <<NewCall(1, [elements |-> s1]),
                                 NewCall(2, [elements |-> s2])>>]

SpecShare == InitShare /\ [][NextCalls]_vars

\* rows of three equal shapes at one height with the same gap between
\* neighbours, listed in any order
MaxRowGap == 5
MaxRowSize == 5

Row(x0, g, w, h) ==
  << Shape("rectangle", "row1", x0, 0, w, h),
     Shape("ellipse", "row2", x0 + w + g, 0, w, h),
     Shape("diamond", "row3", x0 + 2 * (w + g), 0, w, h) >>

InitRow ==
  \E g \in 1..MaxRowGap, w \in 0..MaxRowSize, h \in 1..MaxRowSize, x0 \in {0, 7} :
     \E p \in Reorderings(Row(x0, g, w, h)) : InitTrial(<<p>>)

SpecRow == InitRow /\ [][NextTrial]_vars

\* ------------------------------------------------ variance harness
\* _calculate_variance applied to every list of up to MaxValues floats taken
\* from integers and a tenth, and to the list [50, 100, 150, 200]
MaxValues == 3

StatValues ==
  { FZero, FFromInt(50), FFromInt(100), FFromInt(-100),
    FDiv(FFromInt(1), FFromInt(10)) }

InitStats ==
  /\ InitAnalyzer
  /\ grader = GraderIdle
  /\ geom = GeomIdle
  /\ trial = TrialIdle
  /\ calls = CallsIdle
  /\ \/ \E n \in 0..MaxValues : \E f \in [1..n -> StatValues] :
          stats = [pc |-> "start", values |-> f]
     \/ stats = [pc |-> "start",
                 values |-> <<FFromInt(50), FFromInt(100), FFromInt(150),
                              FFromInt(200)>>]

\* cv = self._calculate_variance(values), with the mean it computed
Variance ==
  /\ stats.pc = "start"
  /\ stats' = [pc |-> "done", values |-> stats.values,
               mean |-> IF Len(stats.values) < 2 THEN FZero ELSE Mean(stats.values),
               result |-> _calculate_variance_float(stats.values)]
  /\ UNCHANGED <<heap, analyzer, metadata, report, outcome, held, heldSeen, grader,
                 geom, trial, calls>>

NextStats == Variance

SpecStats == InitStats /\ [][NextStats]_vars

\* ================================================================ claims
Returned == outcome = "returned"
Elements == Get(metadata, "elements", <<>>)
EmptyInput == Len(Elements) = 0
ReportIssues == heap[report.issues]
ReportWarnings == heap[report.warnings]
Clamp(v, lo, hi) == IF v < lo THEN lo ELSE IF v > hi THEN hi ELSE v
KindsOf(msgs) == {msgs[i].kind : i \in DOMAIN msgs}

\* C1: the score of every report returned by analyze, for an empty or a
\* non-empty snapshot, is an integer between 0 and 100.
C1_ScoreInRange ==
  Returned => report.score \in Int /\ 0 <= report.score /\ report.score <= 100

C1_Witness ==
  /\ Returned /\ ~EmptyInput
  /\ Len(ReportIssues) >= 2 /\ Len(ReportWarnings) >= 1
  /\ report.score <= 75

\* C2 as stated: every report, the empty snapshot's included, has
\* score = clamp(100 - 10*len(issues) - 5*len(warnings), 0, 100).
C2_Original ==
  Returned =>
    report.score = Clamp(100 - 10 * Len(ReportIssues) - 5 * Len(ReportWarnings), 0, 100)

\* C2 (amended): every report for a non-empty snapshot has
\* score = clamp(100 - 10*len(issues) - 5*len(warnings), 0, 100); the report for
\* the empty snapshot has score 0 with its single issue and no warning.
C2_ScoreFormula ==
  Returned =>
    IF EmptyInput
      THEN report.score = 0 /\ Len(ReportIssues) = 1 /\ Len(ReportWarnings) = 0
      ELSE report.score =
             Clamp(100 - 10 * Len(ReportIssues) - 5 * Len(ReportWarnings), 0, 100)

C2_Witness ==
  /\ Returned /\ ~EmptyInput
  /\ Len(ReportIssues) = 1 /\ Len(ReportWarnings) = 2
  /\ report.score = 80

\* C3: for a snapshot without elements (key absent or empty list) analyze
\* returns score 0, grade F, issues exactly ["Empty diagram"], no warnings, and
\* the instance's accumulators are left empty (no check has appended).
C3_EmptySnapshot ==
  (Returned /\ EmptyInput) =>
    /\ report.score = 0
    /\ report.grade = "F"
    /\ ReportIssues = <<Msg("Empty", 0)>>
    /\ ReportWarnings = <<>>
    /\ heap[analyzer.issues] = <<>>
    /\ heap[analyzer.warnings] = <<>>

C3_Witness ==
  /\ Returned
  /\ "elements" \notin DOMAIN metadata
  /\ report.score = 0
  /\ ReportIssues = <<Msg("Empty", 0)>>

\* C4 as stated: every report, the empty snapshot's included, has the seven
\* fields score, grade, quality_level, issues, warnings, suggestions and
\* element_count; element_count is the number of elements and quality_level is
\* one of the five levels.
C4_SevenFields ==
  Returned =>
    /\ DOMAIN report = {"score", "grade", "quality_level", "issues", "warnings",
                        "suggestions", "element_count"}
    /\ report.element_count = Len(Elements)
    /\ report.quality_level \in
         {"Excellent", "Good", "Fair", "Poor", "Needs Improvement"}

\* C5: for every score in 0..100 the grade is A from 90, B from 80, C from 70,
\* D from 60 and F below, the quality level has the same cut points
\* (A/Excellent, B/Good, C/Fair, D/Poor, F/Needs Improvement), and in every
\* non-empty report both are those of the report's score.
GradeFor(s) ==
  CASE s \in 90..100 -> <<"A", "Excellent">>
    [] s \in 80..89 -> <<"B", "Good">>
    [] s \in 70..79 -> <<"C", "Fair">>
    [] s \in 60..69 -> <<"D", "Poor">>
    [] s \in 0..59 -> <<"F", "Needs Improvement">>

C5_GradeTable ==
  /\ grader.pc = "done" => <<grader.grade, grader.level>> = GradeFor(grader.score)
  /\ (Returned /\ ~EmptyInput) =>
        <<report.grade, report.quality_level>> = GradeFor(report.score)

C5_Witness ==
  /\ grader.pc = "done" /\ grader.score = 80
  /\ grader.grade = "B" /\ grader.level = "Good"
  /\ Returned /\ ~EmptyInput
  /\ report.score = 80 /\ report.grade = "B" /\ report.quality_level = "Good"

\* C6: after any sequence of earlier analyze calls on the instance, a call
\* returns what a newly constructed instance returns for the same snapshot
\* (and raises exactly when it would): nothing of an earlier call is left in
\* the report.
ReportValue(r, h) == [r EXCEPT !.issues = h[@], !.warnings = h[@]]

FreshCall == analyze(NewAnalyzer, metadata)

C6_NoStateAcrossCalls ==
  /\ Returned =>
       /\ FreshCall.ret # NoReport
       /\ ReportValue(report, heap) = ReportValue(FreshCall.ret, FreshCall.m.heap)
  /\ outcome = "raised" => FreshCall.ret = NoReport

C6_Witness ==
  /\ held # NoReport
  /\ Len(heldSeen.issues) >= 2
  /\ Returned /\ ~EmptyInput
  /\ report.issues # held.issues
  /\ ReportIssues = <<>> /\ ReportWarnings = <<>>
  /\ report.score = 100

\* C7 as stated: a returned report's score, issues, warnings and suggestions
\* are not changed by later analyze calls, and the lists of every report are
\* the instance's own accumulator lists at the time of return.
HeldUnchanged ==
  held # NoReport =>
    /\ held.score = heldSeen.score
    /\ heap[held.issues] = heldSeen.issues
    /\ heap[held.warnings] = heldSeen.warnings
    /\ held.suggestions = heldSeen.suggestions

C7_Original ==
  /\ HeldUnchanged
  /\ Returned => report.issues = analyzer.issues /\ report.warnings = analyzer.warnings

\* C7 (amended): a returned report's score, issues, warnings and suggestions
\* are not changed by later analyze calls on the instance, although the lists
\* of a report for a non-empty snapshot are the instance's own accumulator
\* lists at the time of return (the report for an empty snapshot has lists of
\* its own).
C7_ReportImmutable ==
  /\ HeldUnchanged
  /\ (Returned /\ ~EmptyInput) =>
        report.issues = analyzer.issues /\ report.warnings = analyzer.warnings
  /\ (Returned /\ EmptyInput) =>
        report.issues # analyzer.issues /\ report.warnings # analyzer.warnings

C7_Witness ==
  /\ held # NoReport
  /\ heldSeen.issues # <<>> /\ heldSeen.warnings # <<>>
  /\ Returned /\ ~EmptyInput
  /\ report.issues = analyzer.issues
  /\ held.issues # report.issues
  /\ ReportIssues # <<>> /\ ReportIssues # heldSeen.issues

\* C8 as stated: analyze never raises for a snapshot whose elements omit
\* attributes, also when two or more shapes lack x or y; a report is returned.
C8_NeverRaises == outcome # "raised"

\* C9: _elements_overlap(e1, e2) is NOT(x1+w1 <= x2 OR x2+w2 <= x1 OR
\* y1+h1 <= y2 OR y2+h2 <= y1), i.e. the boxes overlap exactly when each starts
\* strictly before the other ends on both axes; two boxes that share a touching
\* edge do not overlap and a snapshot of the two gets no overlap issue.
BoxX(e) == Get(e, "x", 0)
BoxY(e) == Get(e, "y", 0)
BoxRight(e) == Get(e, "x", 0) + Get(e, "width", 0)
BoxBottom(e) == Get(e, "y", 0) + Get(e, "height", 0)

Touching(a, b) ==
  \/ BoxRight(a) = BoxX(b) \/ BoxRight(b) = BoxX(a)
  \/ BoxBottom(a) = BoxY(b) \/ BoxBottom(b) = BoxY(a)

C9_OverlapFormula ==
  geom.pc \in {"tested", "analyzed"} =>
    /\ geom.fwd = ( /\ BoxX(geom.e2) < BoxRight(geom.e1)
                    /\ BoxX(geom.e1) < BoxRight(geom.e2)
                    /\ BoxY(geom.e2) < BoxBottom(geom.e1)
                    /\ BoxY(geom.e1) < BoxBottom(geom.e2) )
    /\ Touching(geom.e1, geom.e2) => ~geom.fwd
    /\ (geom.pc = "analyzed" /\ Returned /\ Touching(geom.e1, geom.e2)) =>
          "Overlap" \notin KindsOf(ReportIssues)

C9_Witness ==
  /\ geom.pc = "analyzed" /\ Returned
  /\ BoxRight(geom.e1) = BoxX(geom.e2)
  /\ Get(geom.e1, "width", 0) > 0 /\ Get(geom.e2, "width", 0) > 0
  /\ BoxY(geom.e1) = BoxY(geom.e2)
  /\ Get(geom.e1, "height", 0) > 0 /\ Get(geom.e2, "height", 0) > 0
  /\ ~geom.fwd
  /\ "Overlap" \notin KindsOf(ReportIssues)

\* C10: the overlap test is symmetric: _elements_overlap(a, b) equals
\* _elements_overlap(b, a) for all elements a and b.
C10_OverlapSymmetric ==
  geom.pc \in {"tested", "analyzed"} => geom.fwd = geom.rev

C10_Witness ==
  /\ geom.pc = "tested"
  /\ geom.e1 # geom.e2
  /\ BoxX(geom.e1) > BoxX(geom.e2)
  /\ geom.fwd /\ geom.rev

CountKind(msgs, k) == Cardinality({i \in DOMAIN msgs : msgs[i].kind = k})
HasId(id) == \E i \in DOMAIN Elements : Get(Elements[i], "id", "") = id
TypeOf(e) == Get(e, "type", NoType)
ShapeTypes == {"rectangle", "ellipse", "diamond"}
ShapeIdx == {i \in DOMAIN Elements : TypeOf(Elements[i]) \in ShapeTypes}

\* C11: the report has exactly one "Small text" issue when at least one
\* element of type text carries a fontSize below 12, and none otherwise: a
\* text without fontSize (size 20) or with fontSize exactly 12 is not flagged
\* and a fontSize on an element of another type is ignored.
SmallTextIdx ==
  {i \in DOMAIN Elements :
     /\ TypeOf(Elements[i]) = "text"
     /\ "fontSize" \in DOMAIN Elements[i]
     /\ Elements[i].fontSize < 12}

C11_SmallTextIssue ==
  Returned =>
    CountKind(ReportIssues, "SmallText") = (IF SmallTextIdx # {} THEN 1 ELSE 0)

C11_Witness ==
  /\ Returned
  /\ HasId("text1") /\ HasId("text2") /\ HasId("rect4")
  /\ Cardinality(SmallTextIdx) = 1
  /\ ReportIssues = <<Msg("SmallText", 1)>>

\* C12: the report has exactly one "Disconnected arrows" issue when at least
\* one element of type arrow lacks startBinding or lacks endBinding (the key
\* is absent or null), and none otherwise, in particular none without arrows
\* and none when every arrow carries both bindings.
Missing(e, k) == k \notin DOMAIN e \/ e[k] = Null

DisconnectedIdx ==
  {i \in DOMAIN Elements :
     /\ TypeOf(Elements[i]) = "arrow"
     /\ (Missing(Elements[i], "startBinding") \/ Missing(Elements[i], "endBinding"))}

C12_ArrowIssue ==
  Returned =>
    CountKind(ReportIssues, "Arrows") = (IF DisconnectedIdx # {} THEN 1 ELSE 0)

C12_Witness ==
  /\ Returned
  /\ HasId("arrow2") /\ HasId("arrow3") /\ ~HasId("arrow1")
  /\ Cardinality(DisconnectedIdx) = 1
  /\ CountKind(ReportIssues, "Arrows") = 1

\* C13: for a snapshot with fewer than two shapes the call returns, warnings
\* is empty and issues has no overlap entry; for a lone arrow without
\* startBinding the issues are the single "Disconnected arrows" entry.
LoneUnboundArrow ==
  /\ Len(Elements) = 1
  /\ TypeOf(Elements[1]) = "arrow"
  /\ "startBinding" \notin DOMAIN Elements[1]

C13_FewShapesSkipped ==
  (outcome # "idle" /\ Cardinality(ShapeIdx) < 2) =>
    /\ Returned
    /\ ReportWarnings = <<>>
    /\ CountKind(ReportIssues, "Overlap") = 0
    /\ LoneUnboundArrow => ReportIssues = <<Msg("Arrows", 1)>>

C13_Witness ==
  /\ Returned /\ LoneUnboundArrow
  /\ ReportIssues = <<Msg("Arrows", 1)>>
  /\ ReportWarnings = <<>>

\* C14: when some unordered pair of shapes overlaps, issues has exactly one
\* "Overlapping elements" entry, its count is the number of overlapping
\* unordered pairs of shapes (text, arrow and frame elements never count),
\* and score <= 90; when no pair of shapes overlaps there is no such entry.
BoxesOverlap(a, b) ==
  /\ BoxX(a) < BoxRight(b) /\ BoxX(b) < BoxRight(a)
  /\ BoxY(a) < BoxBottom(b) /\ BoxY(b) < BoxBottom(a)

OverlappingPairs ==
  {p \in ShapeIdx \X ShapeIdx :
     p[1] < p[2] /\ BoxesOverlap(Elements[p[1]], Elements[p[2]])}

C14_OverlapCount ==
  Returned =>
    IF OverlappingPairs # {}
      THEN /\ CountKind(ReportIssues, "Overlap") = 1
           /\ \E i \in DOMAIN ReportIssues :
                ReportIssues[i] = Msg("Overlap", Cardinality(OverlappingPairs))
           /\ report.score <= 90
      ELSE CountKind(ReportIssues, "Overlap") = 0

C14_Witness ==
  /\ Returned
  /\ Elements = OverlapFixture
  /\ ReportIssues = <<Msg("Overlap", 1)>>
  /\ report.score <= 90

\* C15: for a non-empty snapshot, suggestions holds exactly one suggestion
\* for each of the six categories with an issue or warning in the report
\* (one for spacing even when both axes warn), none for the others, and
\* nothing else; when no category has an entry it is the single "no major
\* issues" message.  suggestions is never empty.
Advice ==
  [ SmallText |-> "Increase font size to at least 12px for better readability",
    Spacing |-> "Use consistent spacing (e.g., 50px, 100px, 150px) between elements",
    Alignment |-> "Align elements to create visual order (left/center/right or top/middle/bottom)",
    Overlap |-> "Separate overlapping elements or increase spacing",
    Arrows |-> "Connect all arrows to shapes using bind-arrow command",
    Hierarchy |-> "Use different sizes for different importance levels (larger = more important)" ]

CategoryOf(kind) == IF kind \in {"HSpacing", "VSpacing"} THEN "Spacing" ELSE kind

FiredCategories ==
  {CategoryOf(k) : k \in KindsOf(ReportIssues) \cup KindsOf(ReportWarnings)}

Occurrences(seq, v) == Cardinality({i \in DOMAIN seq : seq[i] = v})

C15_Suggestions ==
  /\ Returned => report.suggestions # <<>>
  /\ (Returned /\ ~EmptyInput) =>
       /\ FiredCategories \subseteq DOMAIN Advice
       /\ \A c \in DOMAIN Advice :
            Occurrences(report.suggestions, Advice[c])
              = (IF c \in FiredCategories THEN 1 ELSE 0)
       /\ IF FiredCategories = {}
            THEN report.suggestions = <<"Diagram looks good! No major issues detected.">>
            ELSE Len(report.suggestions) = Cardinality(FiredCategories)

C15_Witness ==
  /\ Returned
  /\ Elements = CrossFixture
  /\ CountKind(ReportWarnings, "HSpacing") = 1
  /\ CountKind(ReportWarnings, "VSpacing") = 1
  /\ Occurrences(report.suggestions, Advice.Spacing) = 1
  /\ Len(report.suggestions) = 2

TrialDone == trial.pc = "run" /\ Len(trial.results) = Len(trial.inputs)
Base == trial.inputs[1]
Variant == trial.inputs[2]
BaseResult == trial.results[1]
VariantResult == trial.results[2]
AddedTo(s, t, e) == \E k \in 0..Len(s) : t = InsertAt(s, k, e)
ElemsOf(s) == {s[i] : i \in DOMAIN s}

\* C16: analysing a snapshot and any reordering of it gives the same outcome
\* and the same report: score, grade, quality_level, element_count, issues,
\* warnings and suggestions.
C16_OrderIrrelevant ==
  (TrialDone /\ Len(trial.inputs) = 2 /\ Variant \in Reorderings(Base)) =>
    VariantResult = BaseResult

C16_Witness ==
  /\ TrialDone
  /\ Base = CrossFixture
  /\ Variant = [i \in 1..5 |-> CrossFixture[6 - i]]
  /\ VariantResult.outcome = "returned"
  /\ KindsOf(VariantResult.report.warnings) = {"HSpacing", "VSpacing", "Hierarchy"}
  /\ VariantResult = BaseResult

\* C17: adding an element whose type is none of rectangle, ellipse, diamond,
\* text, arrow (frame, an unknown type, no type) to a non-empty snapshot
\* leaves score, grade, quality_level, issues, warnings and suggestions as
\* they were and raises element_count by exactly 1.
IgnoredType(e) == TypeOf(e) \notin ShapeTypes \cup {"text", "arrow"}

C17_IgnoredCounted ==
  ( /\ TrialDone /\ Len(trial.inputs) = 2 /\ Len(Base) >= 1
    /\ \E e \in ElemsOf(Variant) : IgnoredType(e) /\ AddedTo(Base, Variant, e) ) =>
    /\ VariantResult.outcome = BaseResult.outcome
    /\ BaseResult.outcome = "returned" =>
         VariantResult.report =
           [BaseResult.report EXCEPT !.element_count = @ + 1]

C17_Witness ==
  /\ TrialDone
  /\ Base = ThreeTierFixture
  /\ TypeOf(Variant[1]) = "frame" /\ AddedTo(Base, Variant, Variant[1])
  /\ BaseResult.outcome = "returned"
  /\ BaseResult.report.element_count = 10
  /\ VariantResult.report.element_count = 11
  /\ VariantResult.report.score = 90
  /\ VariantResult.report.warnings = BaseResult.report.warnings

\* C18: when a snapshot whose report has no issue and no warning gets one
\* more element that triggers an issue (a text with fontSize < 12, an arrow
\* lacking a binding, a shape overlapping one of its shapes), the score of the
\* new report is less than or equal to the score of the old one.
TriggersIssue(s, e) ==
  \/ TypeOf(e) = "text" /\ Get(e, "fontSize", 20) < 12
  \/ TypeOf(e) = "arrow" /\ (Missing(e, "startBinding") \/ Missing(e, "endBinding"))
  \/ /\ TypeOf(e) \in ShapeTypes
     /\ \E i \in DOMAIN s : TypeOf(s[i]) \in ShapeTypes /\ BoxesOverlap(e, s[i])

CleanResult(r) ==
  r.outcome = "returned" /\ r.report.issues = <<>> /\ r.report.warnings = <<>>

C18_IssueNeverRaisesScore ==
  ( /\ TrialDone /\ Len(trial.inputs) = 2
    /\ CleanResult(BaseResult)
    /\ VariantResult.outcome = "returned"
    /\ \E e \in ElemsOf(Variant) : TriggersIssue(Base, e) /\ AddedTo(Base, Variant, e) ) =>
    VariantResult.report.score <= BaseResult.report.score

C18_Witness ==
  /\ TrialDone
  /\ CleanResult(BaseResult)
  /\ Len(Base) = 2 /\ \A e \in ElemsOf(Base) : TypeOf(e) \in ShapeTypes
  /\ \E e \in CoverShapes : AddedTo(Base, Variant, e)
  /\ VariantResult.outcome = "returned"
  /\ CountKind(VariantResult.report.issues, "Overlap") = 1
  /\ BaseResult.report.score = 100
  /\ VariantResult.report.score <= 90

\* C19: the ten-element 3-tier fixture is reported with score >= 80, grade A
\* or B and element_count = 10.
C19_ThreeTier ==
  (outcome # "idle" /\ Elements = ThreeTierFixture) =>
    /\ Returned
    /\ report.score >= 80
    /\ report.grade \in {"A", "B"}
    /\ report.element_count = 10

C19_Witness ==
  /\ Returned
  /\ Elements = ThreeTierFixture
  /\ report.score = 90 /\ report.grade = "A"
  /\ report.element_count = 10

\* C20: with n >= 2 shapes (each with x and y) the report has the "Few
\* aligned elements" warning exactly when S < 0.3 * n, S being the sum over
\* the four lists x, y, x + width/2, y + height/2 of the number of unordered
\* pairs of shapes whose values differ by at most 5; a pair is counted once
\* in every list in which it is near, up to four times.
NearPairs(s, f(_)) ==
  Cardinality({p \in (DOMAIN s) \X (DOMAIN s) :
                 p[1] < p[2] /\ Abs(f(s[p[1]]) - f(s[p[2]])) <= 10})

TwiceX(e) == 2 * e.x
TwiceY(e) == 2 * e.y
TwiceCenterX(e) == 2 * e.x + Get(e, "width", 0)
TwiceCenterY(e) == 2 * e.y + Get(e, "height", 0)

AlignSum(s) ==
  NearPairs(s, TwiceX) + NearPairs(s, TwiceY)
    + NearPairs(s, TwiceCenterX) + NearPairs(s, TwiceCenterY)

Area(e) == Get(e, "width", 0) * Get(e, "height", 0)
Areas(s) == {Area(s[i]) : i \in DOMAIN s}
MinArea(s) == CHOOSE a \in Areas(s) : \A b \in Areas(s) : a <= b
MaxArea(s) == CHOOSE a \in Areas(s) : \A b \in Areas(s) : b <= a
OnlyShapes(s) == \A e \in ElemsOf(s) : TypeOf(e) \in ShapeTypes

C21_HierarchyRule ==
  ( /\ TrialDone /\ Len(trial.inputs) = 1
    /\ Len(Base) >= 2 /\ OnlyShapes(Base)
    /\ \A e \in ElemsOf(Base) : {"x", "y"} \subseteq DOMAIN e ) =>
    /\ BaseResult.outcome = "returned"
    /\ CountKind(BaseResult.report.warnings, "Hierarchy")
         = (IF MaxArea(Base) > 0 /\ 20 * MinArea(Base) > 19 * MaxArea(Base)
              THEN 1 ELSE 0)
    /\ MaxArea(Base) = 0 => CountKind(BaseResult.report.warnings, "Hierarchy") = 0
    /\ (MaxArea(Base) > 0 /\ 20 * MinArea(Base) = 19 * MaxArea(Base)) =>
         CountKind(BaseResult.report.warnings, "Hierarchy") = 0

\* areas 19 and 20: the ratio is exactly 0.95 and there is no warning
C21_Witness ==
  /\ TrialDone /\ Len(trial.inputs) = 1
  /\ Len(Base) = 2
  /\ MinArea(Base) = 19 /\ MaxArea(Base) = 20
  /\ BaseResult.outcome = "returned"
  /\ CountKind(BaseResult.report.warnings, "Hierarchy") = 0

\* C22: with n >= 2 shapes, every unordered pair of shapes that has a gap
\* contributes it to the horizontal or to the vertical list, and the report
\* has one warning for an axis exactly when that axis has k >= 2 gaps g with
\* 100 * (k * sum(g^2) - (sum g)^2) > 9 * (sum g)^2; an axis with fewer than
\* two gaps or with coefficient of variation exactly 0.3 has none, and there
\* are at most two spacing warnings.
HAligned(a, b) ==
  2 * Abs(BoxY(a) - BoxY(b)) < Min2(Get(a, "height", 0), Get(b, "height", 0))
VAligned(a, b) ==
  2 * Abs(BoxX(a) - BoxX(b)) < Min2(Get(a, "width", 0), Get(b, "width", 0))
HApart(a, b) == BoxRight(a) < BoxX(b) \/ BoxRight(b) < BoxX(a)
VApart(a, b) == BoxBottom(a) < BoxY(b) \/ BoxBottom(b) < BoxY(a)
HasHGap(a, b) == HAligned(a, b) /\ HApart(a, b)
HasVGap(a, b) == ~HasHGap(a, b) /\ VAligned(a, b) /\ VApart(a, b)
HDist(a, b) == Max2(BoxX(a), BoxX(b)) - Min2(BoxRight(a), BoxRight(b))
VDist(a, b) == Max2(BoxY(a), BoxY(b)) - Min2(BoxBottom(a), BoxBottom(b))

HGapsOf(s) ==
  LET sel == SelectSeq(PairSeq(Len(s)), LAMBDA p : HasHGap(s[p[1]], s[p[2]]))
  IN [k \in DOMAIN sel |-> HDist(s[sel[k][1]], s[sel[k][2]])]
VGapsOf(s) ==
  LET sel == SelectSeq(PairSeq(Len(s)), LAMBDA p : HasVGap(s[p[1]], s[p[2]]))
  IN [k \in DOMAIN sel |-> VDist(s[sel[k][1]], s[sel[k][2]])]

SpreadNum(g) == 100 * (Len(g) * SeqSumSq(g) - SeqSum(g) * SeqSum(g))
SpreadDen(g) == 9 * SeqSum(g) * SeqSum(g)
Inconsistent(g) == Len(g) >= 2 /\ SpreadNum(g) > SpreadDen(g)

C22_SpacingRule ==
  ( /\ TrialDone /\ Len(trial.inputs) = 1
    /\ Len(Base) >= 2 /\ OnlyShapes(Base)
    /\ \A e \in ElemsOf(Base) : {"x", "y"} \subseteq DOMAIN e ) =>
    /\ BaseResult.outcome = "returned"
    /\ CountKind(BaseResult.report.warnings, "HSpacing")
         = (IF Inconsistent(HGapsOf(Base)) THEN 1 ELSE 0)
    /\ CountKind(BaseResult.report.warnings, "VSpacing")
         = (IF Inconsistent(VGapsOf(Base)) THEN 1 ELSE 0)
    /\ CountKind(BaseResult.report.warnings, "HSpacing")
         + CountKind(BaseResult.report.warnings, "VSpacing") <= 2

\* the gaps 7 and 13 along the row: the coefficient of variation is exactly
\* 0.3 and there is no spacing warning
C22_Witness ==
  /\ TrialDone /\ Len(trial.inputs) = 1
  /\ Len(Base) = 3
  /\ HGapsOf(Base) = <<7, 13>>
  /\ SpreadNum(HGapsOf(Base)) = SpreadDen(HGapsOf(Base))
  /\ BaseResult.outcome = "returned"
  /\ CountKind(BaseResult.report.warnings, "HSpacing") = 0

\* C23 as stated: for two elements that are horizontally aligned
\* (|y1 - y2| < half the smaller height) and do not overlap along x in the
\* sense of the overlap test (x1 + w1 <= x2 or x2 + w2 <= x1, touching edges
\* included), _calculate_gap returns direction horizontal with distance the
\* left edge of the right element minus the right edge of the left one; and
\* the same for vertically aligned elements with x/width for the alignment
\* and y/height for the gap.
Measured == geom.pc = "measured"
HDisjoint(a, b) == BoxRight(a) <= BoxX(b) \/ BoxRight(b) <= BoxX(a)
VDisjoint(a, b) == BoxBottom(a) <= BoxY(b) \/ BoxBottom(b) <= BoxY(a)

C23_GapOfDisjointPair ==
  Measured =>
    /\ (HAligned(geom.e1, geom.e2) /\ HDisjoint(geom.e1, geom.e2)) =>
         geom.fwd = [direction |-> "horizontal",
                     distance |-> HDist(geom.e1, geom.e2)]
    /\ (VAligned(geom.e1, geom.e2) /\ VDisjoint(geom.e1, geom.e2)) =>
         geom.fwd = [direction |-> "vertical",
                     distance |-> VDist(geom.e1, geom.e2)]

\* C24: _calculate_gap returns none when neither alignment test passes and
\* when the elements overlap along the aligned axis; a pair horizontally
\* aligned and overlapping along x gets no vertical gap, no pair satisfies
\* both the horizontal-gap and the vertical-gap condition, and a returned
\* gap has the direction of the one condition that holds.
C24_NoGapCases ==
  Measured =>
    LET a == geom.e1
        b == geom.e2
    IN /\ (~HAligned(a, b) /\ ~VAligned(a, b)) => geom.fwd = NoGap
       /\ (HAligned(a, b) /\ ~HDisjoint(a, b)) => geom.fwd = NoGap
       /\ (VAligned(a, b) /\ ~VDisjoint(a, b)) => geom.fwd = NoGap
       /\ ~((HAligned(a, b) /\ HApart(a, b)) /\ (VAligned(a, b) /\ VApart(a, b)))
       /\ geom.fwd.direction = "horizontal" => HAligned(a, b) /\ HApart(a, b)
       /\ geom.fwd.direction = "vertical" => VAligned(a, b) /\ VApart(a, b)
       /\ geom.fwd.direction \in {"horizontal", "vertical", "none"}

\* aligned on both axes and overlapping on both: the horizontal test falls
\* through to the vertical test and no gap comes back
C24_Witness ==
  /\ geom.pc = "measured"
  /\ HAligned(geom.e1, geom.e2) /\ ~HDisjoint(geom.e1, geom.e2)
  /\ VAligned(geom.e1, geom.e2) /\ ~VDisjoint(geom.e1, geom.e2)
  /\ geom.e1 # geom.e2
  /\ geom.fwd = NoGap /\ geom.rev = NoGap

\* C29: every gap _calculate_gap returns has a distance > 0, and extents that
\* touch or overlap give no gap on that axis; so every gap list the spacing
\* check hands to _calculate_variance holds positive numbers only, a list of
\* two or more has a positive sum (its mean is not 0), and a snapshot of
\* exactly two shapes gets no spacing warning.
PositiveGap(g) == g.direction # "none" => g.distance > 0
AllPositive(g) == \A i \in DOMAIN g : g[i] > 0
SpacingWarnings(w) == CountKind(w, "HSpacing") + CountKind(w, "VSpacing")

C29_GapsPositive ==
  /\ Measured =>
       /\ PositiveGap(geom.fwd) /\ PositiveGap(geom.rev)
       /\ ~HApart(geom.e1, geom.e2) => geom.fwd.direction # "horizontal"
       /\ ~VApart(geom.e1, geom.e2) => geom.fwd.direction # "vertical"
  /\ (TrialDone /\ Len(trial.inputs) = 1 /\ Len(SelectSeq(Base, IsShape)) = 2) =>
       /\ BaseResult.outcome = "returned"
       /\ SpacingWarnings(BaseResult.report.warnings) = 0
  /\ (TrialDone /\ Len(trial.inputs) = 1) =>
       \A dir \in {"horizontal", "vertical"} :
          LET g == Gaps(SelectSeq(Base, IsShape), dir)
          IN AllPositive(g) /\ (Len(g) >= 2 => SeqSum(g) > 0)

\* three unit boxes in a row, each touching the next: the one gap is the one
\* between the outer boxes
C29_Witness ==
  /\ TrialDone /\ Len(trial.inputs) = 1
  /\ Base = <<Box(0, 0, 1, 1), Box(1, 0, 1, 1), Box(2, 0, 1, 1)>>
  /\ Gaps(Base, "horizontal") = <<1>>
  /\ Gaps(Base, "vertical") = <<>>
  /\ BaseResult.outcome = "returned"
  /\ SpacingWarnings(BaseResult.report.warnings) = 0

\* C25: the six checks run between the reset and the scoring in any order
\* give the score, grade, quality_level, suggestions and element_count of the
\* program order and the same multiset of issues and of warnings (the call
\* raises in one order exactly when it raises in the other); only the order
\* of the entries of issues and warnings depends on the order of the checks.
Sequential(md) == analyze(NewAnalyzer, md)
SeqValue(md) ==
  LET r == Sequential(md)
  IN IF r.ret = NoReport THEN NoReport ELSE ReportValue(r.ret, r.m.heap)
StepValue(t) == ReportValue(calls.threads[t].ret, calls.heap)
SameMultiset(a, b) ==
  /\ Len(a) = Len(b)
  /\ \A i \in DOMAIN a : Occurrences(a, a[i]) = Occurrences(b, a[i])
Unlisted(v) == [v EXCEPT !.issues = <<>>, !.warnings = <<>>]
SameUpToOrder(v, w) ==
  /\ Unlisted(v) = Unlisted(w)
  /\ SameMultiset(v.issues, w.issues)
  /\ SameMultiset(v.warnings, w.warnings)

C25_ChecksIndependent ==
  (calls # CallsIdle /\ calls.order = "any") =>
    \A t \in DOMAIN calls.threads :
       LET th == calls.threads[t]
           seq == SeqValue(th.md)
       IN /\ th.pc = "done" => seq # NoReport /\ SameUpToOrder(StepValue(t), seq)
          /\ th.pc = "raised" => seq = NoReport
          /\ th.pc \in {"scored", "done"} => seq # NoReport

\* the arrow check ran before the text check: the two issues are listed in
\* the other order and everything else is as in program order
C25_Witness ==
  /\ calls # CallsIdle /\ calls.order = "any"
  /\ calls.threads[1].pc = "done"
  /\ Len(StepValue(1).issues) = 2
  /\ StepValue(1).issues # SeqValue(calls.threads[1].md).issues
  /\ SameUpToOrder(StepValue(1), SeqValue(calls.threads[1].md))
  /\ StepValue(1).score = 80

\* C30: two analyze calls interleaved at the reset, the checks and the
\* scoring.  On separate instances every interleaving gives each call the
\* report of a call running alone (and the call raises exactly when that
\* one does), and the report stays so afterwards; on one shared instance
\* some interleaving returns a report that differs from it (the witness).
TwoCalls == calls # CallsIdle /\ calls.order = "program" /\ Len(calls.threads) = 2
OnSeparateInstances == calls.threads[1].inst # calls.threads[2].inst

C30_SeparateInstancesSafe ==
  (TwoCalls /\ OnSeparateInstances) =>
    \A t \in DOMAIN calls.threads :
       LET th == calls.threads[t]
           seq == SeqValue(th.md)
       IN /\ th.pc = "done" => StepValue(t) = seq
          /\ th.pc = "raised" => seq = NoReport
          /\ th.pc \in {"scored", "done"} => seq # NoReport

\* one instance: the call on the small text returns a report that lists the
\* other call's overlap issue, which a call running alone never reports
C30_Witness ==
  /\ TwoCalls /\ ~OnSeparateInstances
  /\ calls.threads[1].md = [elements |-> <<Pool[7]>>]
  /\ calls.threads[2].md = [elements |-> OverlapFixture]
  /\ calls.threads[1].pc = "done" /\ calls.threads[2].pc = "done"
  /\ "Overlap" \in KindsOf(StepValue(1).issues)
  /\ StepValue(1) # SeqValue(calls.threads[1].md)
  /\ KindsOf(SeqValue(calls.threads[1].md).issues) = {"SmallText"}

\* C27: the report for a non-empty snapshot has at most 3 issues (at most
\* one each for small text, overlap, disconnected arrows) and at most 4
\* warnings (at most one each for horizontal spacing, vertical spacing,
\* alignment, hierarchy); its score is a multiple of 5 between 50 and 100,
\* equal to 100 - 10 * issues - 5 * warnings without the clamp at 0; score 0
\* is returned for the empty snapshot only.
IssueKinds == {"SmallText", "Overlap", "Arrows"}
WarningKinds == {"HSpacing", "VSpacing", "Alignment", "Hierarchy"}

C27_ImplicitBounds ==
  /\ (Returned /\ ~EmptyInput) =>
       /\ Len(ReportIssues) <= 3
       /\ KindsOf(ReportIssues) \subseteq IssueKinds
       /\ \A k \in IssueKinds : CountKind(ReportIssues, k) <= 1
       /\ Len(ReportWarnings) <= 4
       /\ KindsOf(ReportWarnings) \subseteq WarningKinds
       /\ \A k \in WarningKinds : CountKind(ReportWarnings, k) <= 1
       /\ report.score % 5 = 0
       /\ 50 <= report.score /\ report.score <= 100
       /\ report.score = 100 - 10 * Len(ReportIssues) - 5 * Len(ReportWarnings)
  /\ (Returned /\ report.score = 0) => EmptyInput

\* three issues and four warnings: the lowest score of a non-empty snapshot
C27_Witness ==
  /\ Returned /\ ~EmptyInput
  /\ KindsOf(ReportIssues) = IssueKinds
  /\ KindsOf(ReportWarnings) = WarningKinds
  /\ Len(ReportIssues) = 3 /\ Len(ReportWarnings) = 4
  /\ report.score = 50

\* C28: three shapes of equal width w >= 0 and equal height > 0 at the same
\* y, with the same gap g > 0 between neighbours, have the horizontal gaps g,
\* g and 2g + w (every aligned pair is measured, not the neighbours only),
\* and the report has the horizontal spacing warning.
EvenRow(s, g, w) ==
  /\ Len(s) = 3 /\ OnlyShapes(s)
  /\ \A e \in ElemsOf(s) : {"x", "y", "width", "height"} \subseteq DOMAIN e
  /\ \A i \in 1..3 : s[i].width = w /\ s[i].height = s[1].height /\ s[i].y = s[1].y
  /\ s[1].height > 0 /\ w >= 0 /\ g > 0
  /\ \E f \in Bijections(3) :
        /\ s[f[2]].x = s[f[1]].x + w + g
        /\ s[f[3]].x = s[f[2]].x + w + g

C28_EvenRowWarns ==
  (TrialDone /\ Len(trial.inputs) = 1) =>
    \A g \in 1..(MaxRowGap + 1), w \in 0..(MaxRowSize + 1) :
       EvenRow(Base, g, w) =>
         /\ SameMultiset(Gaps(Base, "horizontal"), <<g, g, 2 * g + w>>)
         /\ Gaps(Base, "vertical") = <<>>
         /\ BaseResult.outcome = "returned"
         /\ CountKind(BaseResult.report.warnings, "HSpacing") = 1

\* zero width, where the coefficient of variation is lowest: gaps 1, 1, 2
C28_Witness ==
  /\ TrialDone /\ Len(trial.inputs) = 1
  /\ EvenRow(Base, 1, 0)
  /\ SameMultiset(Gaps(Base, "horizontal"), <<1, 1, 2>>)
  /\ BaseResult.outcome = "returned"
  /\ CountKind(BaseResult.report.warnings, "HSpacing") = 1

\* the cases of _calculate_variance, over stats once the function returned
Computed == stats.pc = "done"
Positive(f) == f # FZero /\ ~f.neg
Tenth == FDiv(FFromInt(1), FFromInt(10))
AllEqual(values) == \A i \in DOMAIN values : values[i] = values[1]
\* a float without a fractional part
IsWhole(f) == f.e >= 0 \/ BShl(BShr(f.m, 0 - f.e), 0 - f.e) = f.m
FewOrZeroMean ==
  /\ Len(stats.values) < 2 => stats.result = FZero
  /\ (Len(stats.values) >= 2 /\ stats.mean = FZero) => stats.result = FZero

====
